---- MODULE Spec2Model ----
(***************************************************************************)
(* Model of the tb-perf client: the workload runners of workload.rs (the   *)
(* phase controller, the closed-loop workers, the open-loop submitter and  *)
(* its per-request tasks, the outcome recorder), the retrying relational   *)
(* executor and the batching relational executor of postgres.rs.           *)
(*                                                                         *)
(* Three specifications share the module:                                  *)
(*   Spec       one run of WorkloadRunner (either mode) over an abstract   *)
(*              TransferExecutor;                                          *)
(*   SpecRetry  execute_transfer_with_retry called repeatedly;             *)
(*   SpecBatch  BatchedPostgresExecutor: callers, queue, batch_processor.  *)
(* Atomics are modelled sequentially consistent, one action per atomic     *)
(* operation or suspension point.                                          *)
(***************************************************************************)
EXTENDS Integers, Sequences, FiniteSets, TLC

----------------------------------------------------------------------------
(* Bounds of the model *)

\* grid ticks the open-loop submitter may run (its loop is unbounded)
MaxTicks == 2
\* largest max_concurrency drawn for an open-loop run
MaxCap == 1
\* largest worker count drawn for a closed-loop run
MaxWorkers == 2
\* execute calls the closed-loop workers may issue in total
MaxOps == 2
\* callers of the batched executor, one request each
MaxCallers == 5
\* largest num_accounts drawn for the account selector
MaxAccounts == 3
\* largest transfer amount drawn for the amount range
MaxAmount == 2
\* longest per-transfer error list the ledger client may hand back
MaxApiErrors == 2
\* largest item count handed to process_batched
MaxTotal == 5
\* tigerbeetle_setup's BATCH_SIZE (8189 in the source), scaled down
BATCH_SIZE == 2
\* nanoseconds the clock may reach when the submitter is timed
MaxTime == 5
\* grid ticks of the timed submitter
MaxGridTicks == 3

----------------------------------------------------------------------------
(* Values *)

\* AtomicU64 arithmetic wraps; the modulus 2^64 is scaled to the checker's
\* 32-bit integers (no counter of the model comes near it except by underflow)
U64 == 2^30

\* enum TransferResult, plus "Err" for the Err(_) return of execute
TransferResults == {"Success", "InsufficientBalance", "AccountNotFound", "Failed"}
ExecResults == TransferResults \cup {"Err"}

\* enum TestPhase and the labels of TestPhase::as_str
TestPhases == {"Warmup", "Measurement"}
Labels == {"warmup", "measurement"}

as_str(p) == IF p = "Warmup" THEN "warmup" ELSE "measurement"

\* workload inputs: test mode, target_rate of a fixed_rate run
TestModes == {"max_throughput", "fixed_rate"}
TargetRates == {0, 1000}

\* warmup_duration_secs: no warm-up, or some
WarmupDurations == {0, 1}

TaskIds == 1..MaxTicks
WorkerIds == 1..MaxWorkers

VARIABLES
  \* ---- inputs of the run
  mode,             \* TestMode
  target_rate,      \* fixed_rate: requests per second
  max_concurrency,  \* fixed_rate: cap on in-flight; max_throughput: concurrency
  warmup_duration,  \* PhaseController.warmup_duration, in seconds
  \* ---- PhaseController
  stop_flag,        \* AtomicBool
  phase_flag,       \* AtomicBool: FALSE = Warmup, TRUE = Measurement
  completed_count,  \* AtomicU64
  warmup_count,     \* value returned by run_phases (-1 before)
  measurement_count,\* computed by log_stats (-1 before)
  run_pc,           \* position of run_max_throughput / run_fixed_rate
  \* ---- WorkloadMetrics: counters and histogram sample count, per phase label
  completed, rejected, failed, dropped, latency_us,
  \* ---- open loop
  in_flight,        \* AtomicU64
  sub_pc,           \* position of the submitter task
  sub_phase,        \* the submitter's current_phase of this tick
  ticks,            \* grid ticks taken so far (next_submit = start + ticks * interval)
  grid,             \* history: the phase the submitter read at each tick, in order
  tasks,            \* fixed_rate_transfer_task instances, by tick number
  \* ---- closed loop
  workers,          \* max_throughput_worker instances
  issued            \* execute calls issued by the workers so far

runnerVars == <<mode, target_rate, max_concurrency, warmup_duration,
                stop_flag, phase_flag,
                completed_count, warmup_count, measurement_count, run_pc,
                completed, rejected, failed, dropped, latency_us,
                in_flight, sub_pc, sub_phase, ticks, grid, tasks, workers,
                issued>>

metricVars == <<completed, rejected, failed, dropped, latency_us>>
flagVars == <<stop_flag, phase_flag>>
inputVars == <<mode, target_rate, max_concurrency, warmup_duration>>
openVars == <<in_flight, sub_pc, sub_phase, ticks, grid, tasks>>
closedVars == <<workers, issued>>

VARIABLES
  \* ---- execute_transfer_with_retry (PostgresExecutor::execute)
  rt_pc,            \* "call": execute_transfer pending, "got", "sleep", "done"
  retries,          \* the local `retries`
  attempts,         \* outcomes of the execute_transfer calls made so far, in order
  delays,           \* backoff sleeps taken so far, in ms, in order
  rt_ret            \* value returned by execute ("none" until it returns)

retryVars == <<rt_pc, retries, attempts, delays, rt_ret>>

VARIABLES
  \* ---- BatchedPostgresExecutor
  callers,          \* tasks calling execute, one request each
  request_q,        \* the mpsc channel: queued requests (caller ids), oldest first
  tx_alive,         \* some BatchedPostgresExecutor handle (request_tx) still exists
  reply,            \* per request, its oneshot channel
  agg_pc,           \* position of batch_processor / execute_batch
  batch,            \* the local `batch` of batch_processor
  agg_last,         \* the running execute_batch is the one of the Disconnected arm
  dispatched,       \* the batch handed to the latest execute_batch call
  last_db           \* execute_batch's `results`, as far as kept (NoDb outside)

batchVars == <<callers, request_q, tx_alive, reply, agg_pc, batch, agg_last,
               dispatched, last_db>>

VARIABLES
  \* ---- one transfer of the ledger client: generated, submitted, mapped
  num_accounts,     \* AccountSelector.num_accounts
  min_amount,       \* TransferGenerator.min_amount
  max_amount,       \* TransferGenerator.max_amount
  tr_pc,            \* position in the worker's loop body
  source,           \* the local `source` of select_transfer_accounts
  dest,             \* the local `dest` of select_transfer_accounts
  amount,           \* the generated amount
  resampled,        \* the while loop of select_transfer_accounts ran for this pair
  request,          \* the triple handed to the last execute call (<<>> before)
  tb_result,        \* what create_transfers answered to it ("none" before)
  tr_ret            \* what execute_transfer returned for it ("none" before)

transferVars == <<num_accounts, min_amount, max_amount, tr_pc, source, dest,
                  amount, resampled, request, tb_result, tr_ret>>

VARIABLES
  \* ---- one call of a function of the coordinator or of the configuration
  call,             \* the function called and its arguments
  ret               \* what it returned (NoRet before)

callVars == <<call, ret>>

VARIABLES
  \* ---- the backends as the coordinator sets them up
  tb,               \* the ledger: its accounts and whether the bank exists
  pg,               \* the relational accounts table: balances of rows 1..Len
  setup             \* what the coordinator has called so far

setupVars == <<tb, pg, setup>>

VARIABLES
  \* ---- the open-loop submitter against the clock
  now,              \* Instant::now(), in nanoseconds
  submit,           \* the submitter: its position, next_submit, its ticks
  spawned           \* the fixed_rate_transfer_tasks it spawned, in order

timeVars == <<now, submit, spawned>>

vars == <<runnerVars, retryVars, batchVars, transferVars, callVars, setupVars,
          timeVars>>

\* what the actions of one component leave alone
offRunner == <<retryVars, batchVars, transferVars, callVars, setupVars, timeVars>>
offRetry == <<runnerVars, batchVars, transferVars, callVars, setupVars, timeVars>>
offBatch == <<runnerVars, retryVars, transferVars, callVars, setupVars, timeVars>>
offTransfer == <<runnerVars, retryVars, batchVars, callVars, setupVars, timeVars>>
offCall == <<runnerVars, retryVars, batchVars, transferVars, setupVars, timeVars>>
offSetup == <<runnerVars, retryVars, batchVars, transferVars, timeVars>>
offTime == <<runnerVars, retryVars, batchVars, transferVars, setupVars>>

----------------------------------------------------------------------------
(* Runner: initial state *)

ZeroCounter == [l \in Labels |-> 0]

NoTask == [pc |-> "none", result |-> "none", phase |-> "none",
           tick_phase |-> "none", spawn_phase |-> "none", ret_phase |-> "none"]

NoWorker == [pc |-> "none", result |-> "none", phase |-> "none",
             spawn_phase |-> "none", ret_phase |-> "none"]

\* PhaseController::new and the locals of run_max_throughput / run_fixed_rate
InitRunner ==
  /\ mode \in TestModes
  /\ target_rate \in IF mode = "fixed_rate" THEN TargetRates ELSE {0}
  /\ max_concurrency \in IF mode = "fixed_rate" THEN 0..MaxCap ELSE 0..MaxWorkers
  /\ warmup_duration \in WarmupDurations
  /\ stop_flag = FALSE
  /\ phase_flag = FALSE
  /\ completed_count = 0
  /\ warmup_count = -1
  /\ measurement_count = -1
  /\ run_pc = "start"
  /\ completed = ZeroCounter
  /\ rejected = ZeroCounter
  /\ failed = ZeroCounter
  /\ dropped = ZeroCounter
  /\ latency_us = ZeroCounter
  /\ in_flight = 0
  /\ sub_pc = "none"
  /\ sub_phase = "none"
  /\ ticks = 0
  /\ grid = <<>>
  /\ tasks = [t \in TaskIds |-> NoTask]
  /\ workers = [w \in WorkerIds |-> NoWorker]
  /\ issued = 0

----------------------------------------------------------------------------
(* Phase flags and the outcome recorder *)

get_current_phase(flag) == IF flag THEN "Measurement" ELSE "Warmup"

\* WorkloadMetrics::record_completed: counter and one latency sample
record_completed(phase) ==
  /\ completed' = [completed EXCEPT ![phase] = @ + 1]
  /\ latency_us' = [latency_us EXCEPT ![phase] = @ + 1]
  /\ UNCHANGED <<rejected, failed, dropped>>

\* WorkloadMetrics::record_rejected: counter and one latency sample
record_rejected(phase) ==
  /\ rejected' = [rejected EXCEPT ![phase] = @ + 1]
  /\ latency_us' = [latency_us EXCEPT ![phase] = @ + 1]
  /\ UNCHANGED <<completed, failed, dropped>>

\* WorkloadMetrics::record_failed: counter only
record_failed(phase) ==
  /\ failed' = [failed EXCEPT ![phase] = @ + 1]
  /\ UNCHANGED <<completed, rejected, dropped, latency_us>>

\* WorkloadMetrics::record_dropped: counter only
record_dropped(phase) ==
  /\ dropped' = [dropped EXCEPT ![phase] = @ + 1]
  /\ UNCHANGED <<completed, rejected, failed, latency_us>>

\* variant: an Err(_) return is logged but not counted
record_metric_SkipsErr(result, phase) ==
  CASE result = "Success" -> record_completed(as_str(phase))
    [] result = "InsufficientBalance" -> record_rejected(as_str(phase))
    [] result = "Err" -> UNCHANGED metricVars
    [] OTHER -> record_failed(as_str(phase))

\* record_transfer_result, the metrics call of the matching arm
record_metric(result, phase) ==
  CASE result = "Success" -> record_completed(as_str(phase))
    [] result = "InsufficientBalance" -> record_rejected(as_str(phase))
    [] OTHER -> record_failed(as_str(phase))

\* variant: every Ok(_) outcome but Failed counts as progress
counts_as_completed_AnyAnswer(result) ==
  result \in {"Success", "InsufficientBalance", "AccountNotFound"}

\* record_transfer_result, the arms that go on to completed_count.fetch_add(1)
counts_as_completed(result) == result \in {"Success", "InsufficientBalance"}

fetch_add(v) == (v + 1) % U64
fetch_sub(v) == (v - 1) % U64

----------------------------------------------------------------------------
(* run_max_throughput / run_fixed_rate and PhaseController::run_phases *)

\* variant: the submitter is spawned before target_rate is tested
StartFixedRate_SpawnsFirst ==
  /\ run_pc = "start"
  /\ mode = "fixed_rate"
  /\ run_pc' = IF target_rate = 0 THEN "returned_err" ELSE "warmup"
  /\ sub_pc' = "top"
  /\ UNCHANGED <<offRunner, inputVars, flagVars, completed_count,
                 warmup_count,
                 measurement_count, metricVars, in_flight, sub_phase, ticks, grid,
                 tasks, closedVars>>

\* run_fixed_rate up to the spawn of the submitter: target_rate = 0 bails out
StartFixedRate ==
  /\ run_pc = "start"
  /\ mode = "fixed_rate"
  /\ IF target_rate = 0
       THEN /\ run_pc' = "returned_err"
            /\ UNCHANGED sub_pc
       ELSE /\ run_pc' = "warmup"
            /\ sub_pc' = "top"
  /\ UNCHANGED <<offRunner, inputVars, flagVars, completed_count,
                 warmup_count,
                 measurement_count, metricVars, in_flight, sub_phase, ticks, grid,
                 tasks, closedVars>>

\* variant: the spawn loop runs once too often
StartMaxThroughput_OneMore ==
  /\ run_pc = "start"
  /\ mode = "max_throughput"
  /\ run_pc' = "warmup"
  /\ workers' = [w \in WorkerIds |->
                   IF w <= max_concurrency + 1
                     THEN [NoWorker EXCEPT !.pc = "top"]
                     ELSE NoWorker]
  /\ UNCHANGED <<offRunner, inputVars, flagVars, completed_count,
                 warmup_count, measurement_count, metricVars, openVars, issued>>

\* run_max_throughput up to run_phases: spawn `concurrency` workers
StartMaxThroughput ==
  /\ run_pc = "start"
  /\ mode = "max_throughput"
  /\ run_pc' = "warmup"
  /\ workers' = [w \in WorkerIds |->
                   IF w <= max_concurrency
                     THEN [NoWorker EXCEPT !.pc = "top"]
                     ELSE NoWorker]
  /\ UNCHANGED <<offRunner, inputVars, flagVars, completed_count,
                 warmup_count,
                 measurement_count, metricVars, openVars, issued>>

\* variant: the warmup sleep ends without the phase being published
StoreMeasurement_Skipped ==
  /\ run_pc = "warmup"
  /\ run_pc' = "snapshot"
  /\ UNCHANGED <<offRunner, inputVars, flagVars, completed_count,
                 warmup_count, measurement_count, metricVars, openVars,
                 closedVars>>

\* run_phases: the warmup sleep ends, phase_flag.store(true)
StoreMeasurement ==
  /\ run_pc = "warmup"
  /\ phase_flag' = TRUE
  /\ run_pc' = "snapshot"
  /\ UNCHANGED <<offRunner, inputVars, stop_flag, completed_count,
                 warmup_count,
                 measurement_count, metricVars, openVars, closedVars>>

\* run_phases: warmup_count = completed_count.load()
SnapshotWarmupCount ==
  /\ run_pc = "snapshot"
  /\ warmup_count' = completed_count
  /\ run_pc' = "measure"
  /\ UNCHANGED <<offRunner, inputVars, flagVars, completed_count,
                 measurement_count,
                 metricVars, openVars, closedVars>>

\* variant: leaving the measurement window also resets the phase
StoreStop_ResetsPhase ==
  /\ run_pc = "measure"
  /\ stop_flag' = TRUE
  /\ phase_flag' = FALSE
  /\ run_pc' = "join"
  /\ UNCHANGED <<offRunner, inputVars, completed_count, warmup_count,
                 measurement_count, metricVars, openVars, closedVars>>

\* run_phases: the test sleep ends, stop_flag.store(true), return
StoreStop ==
  /\ run_pc = "measure"
  /\ stop_flag' = TRUE
  /\ run_pc' = "join"
  /\ UNCHANGED <<offRunner, inputVars, phase_flag, completed_count,
                 warmup_count,
                 measurement_count, metricVars, openVars, closedVars>>

\* run_fixed_rate: submitter.await
JoinSubmitter ==
  /\ run_pc = "join"
  /\ mode = "fixed_rate"
  /\ sub_pc = "exited"
  /\ run_pc' = "drain"
  /\ UNCHANGED <<offRunner, inputVars, flagVars, completed_count,
                 warmup_count,
                 measurement_count, metricVars, openVars, closedVars>>

\* variant: statistics are reported without waiting for in_flight to reach 0
DrainDone_NoWait ==
  /\ run_pc = "drain"
  /\ run_pc' = "log"
  /\ UNCHANGED <<offRunner, inputVars, flagVars, completed_count,
                 warmup_count,
                 measurement_count, metricVars, openVars, closedVars>>

\* run_fixed_rate: the drain loop leaves when in_flight.load() = 0
DrainDone ==
  /\ run_pc = "drain"
  /\ in_flight = 0
  /\ run_pc' = "log"
  /\ UNCHANGED <<offRunner, inputVars, flagVars, completed_count,
                 warmup_count,
                 measurement_count, metricVars, openVars, closedVars>>

\* variant: the join loop is left at the first worker handle that is ready
JoinWorkers_FirstHandle ==
  /\ run_pc = "join"
  /\ mode = "max_throughput"
  /\ \E w \in WorkerIds : workers[w].pc \in {"stopped", "panicked"}
  /\ run_pc' = "log"
  /\ UNCHANGED <<offRunner, inputVars, flagVars, completed_count,
                 warmup_count,
                 measurement_count, metricVars, openVars, closedVars>>

\* run_max_throughput: every worker handle awaited; a handle that yields a
\* JoinError (the task panicked) is logged and the loop goes on
JoinWorkers ==
  /\ run_pc = "join"
  /\ mode = "max_throughput"
  /\ \A w \in WorkerIds : workers[w].pc \in {"none", "stopped", "panicked"}
  /\ run_pc' = "log"
  /\ UNCHANGED <<offRunner, inputVars, flagVars, completed_count,
                 warmup_count,
                 measurement_count, metricVars, openVars, closedVars>>

\* variant: the operands of the subtraction are swapped
LogStats_Swapped ==
  /\ run_pc = "log"
  /\ measurement_count' = (warmup_count - completed_count) % U64
  /\ run_pc' = "returned_ok"
  /\ UNCHANGED <<offRunner, inputVars, flagVars, completed_count,
                 warmup_count, metricVars, openVars, closedVars>>

\* PhaseController::log_stats, then Ok(())
LogStats ==
  /\ run_pc = "log"
  /\ measurement_count' = (completed_count - warmup_count) % U64
  /\ run_pc' = "returned_ok"
  /\ UNCHANGED <<offRunner, inputVars, flagVars, completed_count,
                 warmup_count,
                 metricVars, openVars, closedVars>>

----------------------------------------------------------------------------
(* Open loop: the submitter task of run_fixed_rate *)

\* variant: the stop flag is looked at only every second iteration
SubmitterTop_EveryOther ==
  /\ sub_pc = "top"
  /\ IF stop_flag /\ ticks % 2 = 0
       THEN sub_pc' = "exited"
       ELSE /\ ticks < MaxTicks
            /\ sub_pc' = "tick"
  /\ UNCHANGED <<offRunner, inputVars, flagVars, completed_count,
                 warmup_count,
                 measurement_count, run_pc, metricVars, in_flight, sub_phase,
                 ticks, grid, tasks, closedVars>>

\* while !stop.load(): leave the loop, or sleep until next_submit
SubmitterTop ==
  /\ sub_pc = "top"
  /\ IF stop_flag
       THEN sub_pc' = "exited"
       ELSE /\ ticks < MaxTicks
            /\ sub_pc' = "tick"
  /\ UNCHANGED <<offRunner, inputVars, flagVars, completed_count,
                 warmup_count,
                 measurement_count, run_pc, metricVars, in_flight, sub_phase,
                 ticks, grid, tasks, closedVars>>

\* scheduled_time = next_submit; next_submit += interval; read the phase
SubmitterTick ==
  /\ sub_pc = "tick"
  /\ ticks' = ticks + 1
  /\ grid' = Append(grid, get_current_phase(phase_flag))
  /\ sub_phase' = get_current_phase(phase_flag)
  /\ sub_pc' = "check"
  /\ UNCHANGED <<offRunner, inputVars, flagVars, completed_count,
                 warmup_count,
                 measurement_count, run_pc, metricVars, in_flight, tasks,
                 closedVars>>

\* variant: the cap is tested with > instead of >=
cap_reached_strict(n, cap) == n > cap

\* the concurrency check of the submitter
cap_reached(n, cap) == n >= cap

\* variant: a request dropped at the cap is not counted
SubmitterCheck_DropUncounted ==
  /\ sub_pc = "check"
  /\ sub_pc' = IF cap_reached(in_flight, max_concurrency) THEN "top" ELSE "spawn"
  /\ UNCHANGED <<offRunner, inputVars, flagVars, completed_count,
                 warmup_count, measurement_count, run_pc, metricVars, in_flight,
                 sub_phase, ticks, grid, tasks, closedVars>>

\* variant: the drop arm lacks its `continue` and falls through to the spawn
SubmitterCheck_FallsThrough ==
  /\ sub_pc = "check"
  /\ IF cap_reached(in_flight, max_concurrency)
       THEN record_dropped(as_str(sub_phase))
       ELSE UNCHANGED metricVars
  /\ sub_pc' = "spawn"
  /\ UNCHANGED <<offRunner, inputVars, flagVars, completed_count,
                 warmup_count, measurement_count, run_pc, in_flight, sub_phase,
                 ticks, grid, tasks, closedVars>>

\* in_flight.load() >= max_concurrency: record_dropped and continue
SubmitterCheck ==
  /\ sub_pc = "check"
  /\ IF cap_reached(in_flight, max_concurrency)
       THEN /\ record_dropped(as_str(sub_phase))
            /\ sub_pc' = "top"
       ELSE /\ sub_pc' = "spawn"
            /\ UNCHANGED metricVars
  /\ UNCHANGED <<offRunner, inputVars, flagVars, completed_count,
                 warmup_count,
                 measurement_count, run_pc, in_flight, sub_phase, ticks, grid,
                 tasks, closedVars>>

\* in_flight.fetch_add(1); tokio::spawn(fixed_rate_transfer_task(..))
SubmitterSpawn ==
  /\ sub_pc = "spawn"
  /\ in_flight' = fetch_add(in_flight)
  /\ tasks' = [tasks EXCEPT ![ticks] =
                 [NoTask EXCEPT !.pc = "exec",
                                !.tick_phase = sub_phase,
                                !.spawn_phase = get_current_phase(phase_flag)]]
  /\ sub_pc' = "top"
  /\ UNCHANGED <<offRunner, inputVars, flagVars, completed_count,
                 warmup_count,
                 measurement_count, run_pc, metricVars, sub_phase, ticks, grid,
                 closedVars>>

----------------------------------------------------------------------------
(* Open loop: fixed_rate_transfer_task *)

\* executor.execute(..).await returns
TaskExecuteReturns(t) ==
  /\ tasks[t].pc = "exec"
  /\ \E r \in ExecResults :
       tasks' = [tasks EXCEPT ![t].pc = "returned",
                              ![t].result = r,
                              ![t].ret_phase = get_current_phase(phase_flag)]
  /\ UNCHANGED <<offRunner, inputVars, flagVars, completed_count,
                 warmup_count,
                 measurement_count, run_pc, metricVars, in_flight, sub_pc,
                 sub_phase, ticks, grid, closedVars>>

\* current_phase = get_current_phase(&phase_flag)
TaskReadPhase(t) ==
  /\ tasks[t].pc = "returned"
  /\ tasks' = [tasks EXCEPT ![t].pc = "record",
                            ![t].phase = get_current_phase(phase_flag)]
  /\ UNCHANGED <<offRunner, inputVars, flagVars, completed_count,
                 warmup_count,
                 measurement_count, run_pc, metricVars, in_flight, sub_pc,
                 sub_phase, ticks, grid, closedVars>>

\* record_transfer_result: the metrics call
TaskRecordMetric(t) ==
  /\ tasks[t].pc = "record"
  /\ record_metric(tasks[t].result, tasks[t].phase)
  /\ tasks' = [tasks EXCEPT ![t].pc =
                 IF counts_as_completed(tasks[t].result) THEN "count" ELSE "release"]
  /\ UNCHANGED <<offRunner, inputVars, flagVars, completed_count,
                 warmup_count,
                 measurement_count, run_pc, in_flight, sub_pc, sub_phase,
                 ticks, grid, closedVars>>

\* record_transfer_result: completed_count.fetch_add(1)
TaskCount(t) ==
  /\ tasks[t].pc = "count"
  /\ completed_count' = fetch_add(completed_count)
  /\ tasks' = [tasks EXCEPT ![t].pc = "release"]
  /\ UNCHANGED <<offRunner, inputVars, flagVars, warmup_count,
                 measurement_count, run_pc,
                 metricVars, in_flight, sub_pc, sub_phase, ticks, grid, closedVars>>

\* in_flight.fetch_sub(1); the task ends (of its record only the tick's phase
\* and the recorded phase are kept)
TaskRelease(t) ==
  /\ tasks[t].pc = "release"
  /\ in_flight' = fetch_sub(in_flight)
  /\ tasks' = [tasks EXCEPT ![t] =
                 [NoTask EXCEPT !.pc = "done",
                                !.tick_phase = tasks[t].tick_phase,
                                !.phase = tasks[t].phase]]
  /\ UNCHANGED <<offRunner, inputVars, flagVars, completed_count,
                 warmup_count,
                 measurement_count, run_pc, metricVars, sub_pc, sub_phase,
                 ticks, grid, closedVars>>

----------------------------------------------------------------------------
(* Closed loop: max_throughput_worker *)

\* while !stop.load(): leave, or generate a transfer and call execute
WorkerTop(w) ==
  /\ workers[w].pc = "top"
  /\ IF stop_flag
       THEN /\ workers' = [workers EXCEPT ![w] = [NoWorker EXCEPT !.pc = "stopped"]]
            /\ UNCHANGED issued
       ELSE /\ issued < MaxOps
            /\ issued' = issued + 1
            /\ workers' = [workers EXCEPT ![w] =
                 [NoWorker EXCEPT !.pc = "exec",
                                  !.spawn_phase = get_current_phase(phase_flag)]]
  /\ UNCHANGED <<offRunner, inputVars, flagVars, completed_count,
                 warmup_count,
                 measurement_count, run_pc, metricVars, openVars>>

\* executor.execute(..).await returns
WorkerExecuteReturns(w) ==
  /\ workers[w].pc = "exec"
  /\ \E r \in ExecResults :
       workers' = [workers EXCEPT ![w].pc = "returned",
                                  ![w].result = r,
                                  ![w].ret_phase = get_current_phase(phase_flag)]
  /\ UNCHANGED <<offRunner, inputVars, flagVars, completed_count,
                 warmup_count,
                 measurement_count, run_pc, metricVars, openVars, issued>>

\* the worker task fails: a panic inside executor.execute(..) ends the task,
\* its JoinHandle yields Err(JoinError)
WorkerPanics(w) ==
  /\ workers[w].pc = "exec"
  /\ workers' = [workers EXCEPT ![w] = [NoWorker EXCEPT !.pc = "panicked"]]
  /\ UNCHANGED <<offRunner, inputVars, flagVars, completed_count,
                 warmup_count,
                 measurement_count, run_pc, metricVars, openVars, issued>>

\* variant: the phase captured when the transfer was issued is recorded
WorkerReadPhase_AtSubmission(w) ==
  /\ workers[w].pc = "returned"
  /\ workers' = [workers EXCEPT ![w].pc = "record",
                                ![w].phase = workers[w].spawn_phase]
  /\ UNCHANGED <<offRunner, inputVars, flagVars, completed_count,
                 warmup_count, measurement_count, run_pc, metricVars, openVars,
                 issued>>

\* current_phase = get_current_phase(&phase)
WorkerReadPhase(w) ==
  /\ workers[w].pc = "returned"
  /\ workers' = [workers EXCEPT ![w].pc = "record",
                                ![w].phase = get_current_phase(phase_flag)]
  /\ UNCHANGED <<offRunner, inputVars, flagVars, completed_count,
                 warmup_count,
                 measurement_count, run_pc, metricVars, openVars, issued>>

\* variant: a Failed outcome is recorded and the same transfer executed again
WorkerRecordMetric_RetriesFailed(w) ==
  /\ workers[w].pc = "record"
  /\ record_metric(workers[w].result, workers[w].phase)
  /\ workers' = [workers EXCEPT ![w] =
                   IF counts_as_completed(workers[w].result)
                     THEN [@ EXCEPT !.pc = "count"]
                     ELSE IF workers[w].result = "Failed"
                            THEN [NoWorker EXCEPT !.pc = "exec"]
                            ELSE [NoWorker EXCEPT !.pc = "top"]]
  /\ UNCHANGED <<offRunner, inputVars, flagVars, completed_count,
                 warmup_count, measurement_count, run_pc, openVars, issued>>

\* variant: an Err(_) from execute is propagated and ends the worker
WorkerRecordMetric_ErrEndsWorker(w) ==
  /\ workers[w].pc = "record"
  /\ record_metric(workers[w].result, workers[w].phase)
  /\ workers' = [workers EXCEPT ![w] =
                   IF counts_as_completed(workers[w].result)
                     THEN [@ EXCEPT !.pc = "count"]
                     ELSE IF workers[w].result = "Err"
                            THEN [NoWorker EXCEPT !.pc = "stopped"]
                            ELSE [NoWorker EXCEPT !.pc = "top"]]
  /\ UNCHANGED <<offRunner, inputVars, flagVars, completed_count,
                 warmup_count,
                 measurement_count, run_pc, openVars, issued>>

\* record_transfer_result: the metrics call (the iteration's locals end with it
\* unless completed_count is still to be bumped)
WorkerRecordMetric(w) ==
  /\ workers[w].pc = "record"
  /\ record_metric(workers[w].result, workers[w].phase)
  /\ workers' = [workers EXCEPT ![w] =
                   IF counts_as_completed(workers[w].result)
                     THEN [@ EXCEPT !.pc = "count"]
                     ELSE [NoWorker EXCEPT !.pc = "top"]]
  /\ UNCHANGED <<offRunner, inputVars, flagVars, completed_count,
                 warmup_count,
                 measurement_count, run_pc, openVars, issued>>

\* record_transfer_result: completed_count.fetch_add(1)
WorkerCount(w) ==
  /\ workers[w].pc = "count"
  /\ completed_count' = fetch_add(completed_count)
  /\ workers' = [workers EXCEPT ![w] = [NoWorker EXCEPT !.pc = "top"]]
  /\ UNCHANGED <<offRunner, inputVars, flagVars, warmup_count,
                 measurement_count, run_pc,
                 metricVars, openVars, issued>>

----------------------------------------------------------------------------
(* The runner specification *)

NextRunner ==
  \/ StartFixedRate
  \/ StartMaxThroughput
  \/ StoreMeasurement
  \/ SnapshotWarmupCount
  \/ StoreStop
  \/ JoinSubmitter
  \/ DrainDone
  \/ JoinWorkers
  \/ LogStats
  \/ SubmitterTop
  \/ SubmitterTick
  \/ SubmitterCheck
  \/ SubmitterSpawn
  \/ \E t \in TaskIds : TaskExecuteReturns(t)
  \/ \E t \in TaskIds : TaskReadPhase(t)
  \/ \E t \in TaskIds : TaskRecordMetric(t)
  \/ \E t \in TaskIds : TaskCount(t)
  \/ \E t \in TaskIds : TaskRelease(t)
  \/ \E w \in WorkerIds : WorkerTop(w)
  \/ \E w \in WorkerIds : WorkerExecuteReturns(w)
  \/ \E w \in WorkerIds : WorkerPanics(w)
  \/ \E w \in WorkerIds : WorkerReadPhase(w)
  \/ \E w \in WorkerIds : WorkerRecordMetric(w)
  \/ \E w \in WorkerIds : WorkerCount(w)

----------------------------------------------------------------------------
(* Relational per-request executor: execute_transfer_with_retry *)

MAX_RETRIES == 5
BASE_RETRY_DELAY_MS == 10

\* An anyhow::Error as is_serialization_failure sees it: the SQLSTATE of the
\* tokio_postgres db error it downcasts to ("none": no db error to be found), and
\* whether its text holds "could not serialize access" or "40001".
SqlStates == {"none", "40001", "40P01"}
Errors == [db_code : SqlStates, text_match : BOOLEAN]

\* Result<TransferResult> of one execute_transfer call
Ok(r) == [ok |-> TRUE, result |-> r]
Err(e) == [ok |-> FALSE, error |-> e]
AttemptOutcomes == {Ok(r) : r \in TransferResults} \cup {Err(e) : e \in Errors}

is_serialization_failure(e) ==
  IF e.db_code # "none"
    THEN e.db_code = "40001"
    ELSE e.text_match

\* variant: the exponent counts from zero, so the first sleep is the base delay
backoff_delay_FromBase(n) == BASE_RETRY_DELAY_MS * 2^(n - 1)

\* delay = BASE_RETRY_DELAY_MS * 2u64.pow(retries), retries already incremented
backoff_delay(n) == BASE_RETRY_DELAY_MS * 2^n

\* the guard of the retry arm
may_retry(e, n) == is_serialization_failure(e) /\ n < MAX_RETRIES

\* variant: the exhaustion test is off by one and never holds
budget_exhausted_Strict(n) == n > MAX_RETRIES

\* the guard of the arm returning Ok(TransferResult::Failed)
budget_exhausted(n) == n >= MAX_RETRIES

InitRetry ==
  /\ rt_pc = "call"
  /\ retries = 0
  /\ attempts = <<>>
  /\ delays = <<>>
  /\ rt_ret = "none"

\* execute_transfer(..).await returns
ExecuteTransferReturns ==
  /\ rt_pc = "call"
  /\ \E o \in AttemptOutcomes : attempts' = Append(attempts, o)
  /\ rt_pc' = "got"
  /\ UNCHANGED <<retries, delays, rt_ret>>
  /\ UNCHANGED offRetry

\* the match on the attempt's result
RetryDecide ==
  /\ rt_pc = "got"
  /\ LET o == attempts[Len(attempts)] IN
       IF o.ok
         THEN /\ rt_ret' = Ok(o.result)
              /\ rt_pc' = "done"
              /\ UNCHANGED <<retries, delays>>
         ELSE IF may_retry(o.error, retries)
           THEN /\ retries' = retries + 1
                /\ delays' = Append(delays, backoff_delay(retries + 1))
                /\ rt_pc' = "sleep"
                /\ UNCHANGED rt_ret
           ELSE IF budget_exhausted(retries)
             THEN /\ rt_ret' = Ok("Failed")
                  /\ rt_pc' = "done"
                  /\ UNCHANGED <<retries, delays>>
             ELSE /\ rt_ret' = Err(o.error)
                  /\ rt_pc' = "done"
                  /\ UNCHANGED <<retries, delays>>
  /\ UNCHANGED attempts
  /\ UNCHANGED offRetry

\* tokio::time::sleep(delay).await ends; continue
RetrySleepDone ==
  /\ rt_pc = "sleep"
  /\ rt_pc' = "call"
  /\ UNCHANGED <<retries, attempts, delays, rt_ret>>
  /\ UNCHANGED offRetry

NextRetry ==
  \/ ExecuteTransferReturns
  \/ RetryDecide
  \/ RetrySleepDone

----------------------------------------------------------------------------
(* Relational batched executor *)

\* const MAX_BATCH_SIZE (8190 in the source, scaled down)
MAX_BATCH_SIZE == 2

\* mpsc::channel(MAX_BATCH_SIZE * 2)
QueueCapacity == MAX_BATCH_SIZE * 2

CallerIds == 1..MaxCallers

\* SMALLINT codes batch_transfers returns here: SUCCESS, a known rejection
\* (INSUFFICIENT_BALANCE) and a code outside batch_result_codes
ResultCodes == {0, 1, 7}

\* execute_batch_transfer: the code-to-outcome match
decode_result(code) ==
  CASE code = 0 -> "Success"
    [] code = 1 -> "InsufficientBalance"
    [] code = 2 -> "AccountNotFound"
    [] OTHER -> "Failed"

\* the statements execute_batch_transfer sends on its connection before it
\* returns, by the stage at which it fails ("none": it does not fail)
statements_issued(stage) ==
  CASE stage = "pool" -> <<>>
    [] stage = "begin" -> <<"BEGIN">>
    [] stage = "query" -> <<"BEGIN", "SELECT batch_transfers", "ROLLBACK">>
    [] stage = "commit" ->
         <<"BEGIN", "SELECT batch_transfers", "COMMIT", "ROLLBACK">>
    [] OTHER -> <<"BEGIN", "SELECT batch_transfers", "COMMIT">>

\* What execute_batch_transfer can return for a batch of n requests: an error
\* from pool.get, BEGIN, the query or COMMIT (the last two may be serialization
\* failures), or a decoded array, whose length the server decides. The array's
\* elements are drawn when execute_batch reads them (see ResultArrays).
BatchDbResults(n) ==
  {[ok |-> FALSE, stage |-> st, serialization |-> FALSE, len |-> 0] :
      st \in {"pool", "begin", "query", "commit"}}
  \cup {[ok |-> FALSE, stage |-> st, serialization |-> TRUE, len |-> 0] :
      st \in {"query", "commit"}}
  \cup {[ok |-> TRUE, stage |-> "none", serialization |-> FALSE, len |-> k] :
      k \in 0..(n + 1)}

\* execute_batch: the arm that zips the batch with the result array
lengths_match(db, n) == db.ok /\ db.len = n

\* the decoded arrays execute_batch may read: none unless the lengths match
ResultArrays(db, n) ==
  IF lengths_match(db, n)
    THEN {[i \in 1..n |-> decode_result(codes[i])] : codes \in [1..n -> ResultCodes]}
    ELSE {<<>>}

\* execute_batch: the outcome sent to the i-th request of a batch of n
outcome_for(db, results, n, i) ==
  IF lengths_match(db, n)
    THEN results[i]
    ELSE "Failed"

\* variant: the results are zipped with the batch without the length check, so
\* only as many requests as there are results are sent an outcome
drained_Zipped(b, db) ==
  IF db.ok
    THEN {b[i] : i \in 1..(IF db.len < Len(b) THEN db.len ELSE Len(b))}
    ELSE {b[i] : i \in 1..Len(b)}

\* execute_batch: the requests drained from the batch, i.e. sent an outcome
drained(b, db) == {b[i] : i \in 1..Len(b)}

NoCaller == [pc |-> "idle"]
\* execute_batch is not running: no result of execute_batch_transfer is held
NoDb == [ok |-> FALSE, stage |-> "none", serialization |-> FALSE, len |-> 0]
\* a oneshot channel: whether its receiver is alive, the value it holds ("none"
\* before the send, "taken" once received, "discarded" when it was sent to a
\* dropped receiver), and how many sends it has seen
NoReply == [rx_alive |-> TRUE, sent |-> "none", sends |-> 0]

InitBatch ==
  /\ callers = [c \in CallerIds |-> NoCaller]
  /\ request_q = <<>>
  /\ tx_alive = TRUE
  /\ reply = [c \in CallerIds |-> NoReply]
  /\ agg_pc = "recv"
  /\ batch = <<>>
  /\ agg_last = FALSE
  /\ dispatched = <<>>
  /\ last_db = NoDb

\* requests are numbered in the order in which execute is called
calls_in_order(c) == \A d \in CallerIds : d < c => callers[d].pc # "idle"

\* the channel's semaphore is fair: a permit goes to the longest-waiting sender
no_earlier_waiter(c) == \A d \in CallerIds : d < c => callers[d].pc # "blocked"

\* variant: the request is sent with try_send, a full queue is an error
CallerSend_TrySend(c) ==
  /\ callers[c].pc = "idle"
  /\ tx_alive
  /\ calls_in_order(c)
  /\ IF agg_pc = "exited" \/ Len(request_q) >= QueueCapacity
       THEN /\ callers' = [callers EXCEPT ![c].pc = "error"]
            /\ UNCHANGED request_q
       ELSE /\ request_q' = Append(request_q, c)
            /\ callers' = [callers EXCEPT ![c].pc = "wait"]
  /\ UNCHANGED <<tx_alive, reply, agg_pc, batch, agg_last, dispatched, last_db>>
  /\ UNCHANGED offBatch

\* BatchedPostgresExecutor::execute up to the first suspension: request_tx.send
\* completes at once when the queue has room, and suspends when it is full
CallerSend(c) ==
  /\ callers[c].pc = "idle"
  /\ tx_alive
  /\ calls_in_order(c)
  /\ IF agg_pc = "exited"
       THEN /\ callers' = [callers EXCEPT ![c].pc = "error"]
            /\ UNCHANGED request_q
       ELSE IF Len(request_q) < QueueCapacity /\ no_earlier_waiter(c)
         THEN /\ request_q' = Append(request_q, c)
              /\ callers' = [callers EXCEPT ![c].pc = "wait"]
         ELSE /\ callers' = [callers EXCEPT ![c].pc = "blocked"]
              /\ UNCHANGED request_q
  /\ UNCHANGED <<tx_alive, reply, agg_pc, batch, agg_last, dispatched, last_db>>
  /\ UNCHANGED offBatch

\* request_tx.send(..).await resumes: the queue has room again
CallerSendResumes(c) ==
  /\ callers[c].pc = "blocked"
  /\ no_earlier_waiter(c)
  /\ Len(request_q) < QueueCapacity
  /\ request_q' = Append(request_q, c)
  /\ callers' = [callers EXCEPT ![c].pc = "wait"]
  /\ UNCHANGED <<tx_alive, reply, agg_pc, batch, agg_last, dispatched, last_db>>
  /\ UNCHANGED offBatch

\* response_rx.await completes with the outcome sent, execute returns it
CallerReceive(c) ==
  /\ callers[c].pc = "wait"
  /\ reply[c].rx_alive
  /\ reply[c].sends > 0
  /\ callers' = [callers EXCEPT ![c].pc = "done"]
  /\ reply' = [reply EXCEPT ![c].sent = "taken"]
  /\ UNCHANGED <<request_q, tx_alive, agg_pc, batch, agg_last, dispatched,
                 last_db>>
  /\ UNCHANGED offBatch

\* the caller's future is dropped while it awaits the response, before the
\* outcome is sent (once the outcome is in the channel, dropping the future and
\* receiving it leave the same channel behind: CallerReceive)
CallerCancel(c) ==
  /\ callers[c].pc = "wait"
  /\ reply[c].sends = 0
  /\ callers' = [callers EXCEPT ![c].pc = "cancelled"]
  /\ reply' = [reply EXCEPT ![c].rx_alive = FALSE]
  /\ UNCHANGED <<request_q, tx_alive, agg_pc, batch, agg_last,
                 dispatched, last_db>>
  /\ UNCHANGED offBatch

\* the last BatchedPostgresExecutor handle is dropped (no call is using one)
DropExecutor ==
  /\ tx_alive
  /\ \A c \in CallerIds : callers[c].pc \notin {"wait", "blocked"}
  /\ tx_alive' = FALSE
  /\ UNCHANGED <<callers, request_q, reply, agg_pc, batch, agg_last,
                 dispatched, last_db>>
  /\ UNCHANGED offBatch

\* execute_batch is entered with batch b
begin_execute_batch(b, last) ==
  /\ agg_pc' = "db"
  /\ agg_last' = last
  /\ dispatched' = b

\* variant: recv hands out the first request and leaves it on the queue
AggRecv_Peeks ==
  /\ agg_pc = "recv"
  /\ IF request_q # <<>>
       THEN /\ request_q' = request_q
            /\ batch' = <<Head(request_q)>>
            /\ IF 1 < MAX_BATCH_SIZE
                 THEN /\ agg_pc' = "collect"
                      /\ UNCHANGED <<agg_last, dispatched>>
                 ELSE begin_execute_batch(batch', FALSE)
       ELSE /\ ~tx_alive
            /\ agg_pc' = "exited"
            /\ UNCHANGED <<request_q, batch, agg_last, dispatched>>
  /\ UNCHANGED <<callers, tx_alive, reply, last_db>>
  /\ UNCHANGED offBatch

\* request_rx.recv().await returns: Some(first_request), or None
AggRecv ==
  /\ agg_pc = "recv"
  /\ IF request_q # <<>>
       THEN /\ request_q' = Tail(request_q)
            /\ batch' = <<Head(request_q)>>
            /\ IF 1 < MAX_BATCH_SIZE
                 THEN /\ agg_pc' = "collect"
                      /\ UNCHANGED <<agg_last, dispatched>>
                 ELSE begin_execute_batch(batch', FALSE)
       ELSE /\ ~tx_alive
            /\ agg_pc' = "exited"
            /\ UNCHANGED <<request_q, batch, agg_last, dispatched>>
  /\ UNCHANGED <<callers, tx_alive, reply, last_db>>
  /\ UNCHANGED offBatch

\* variant: on Disconnected the processor returns at once
AggTryRecv_ReturnsOnDisconnect ==
  /\ agg_pc = "collect"
  /\ IF request_q # <<>>
       THEN /\ request_q' = Tail(request_q)
            /\ batch' = Append(batch, Head(request_q))
            /\ IF Len(batch') < MAX_BATCH_SIZE
                 THEN UNCHANGED <<agg_pc, agg_last, dispatched>>
                 ELSE begin_execute_batch(batch', FALSE)
       ELSE /\ UNCHANGED <<request_q, batch>>
            /\ IF tx_alive
                 THEN begin_execute_batch(batch, FALSE)
                 ELSE /\ agg_pc' = "exited"
                      /\ UNCHANGED <<agg_last, dispatched>>
  /\ UNCHANGED <<callers, tx_alive, reply, last_db>>
  /\ UNCHANGED offBatch

\* variant: the processor goes on collecting requests into the batch while
\* the database call of execute_batch is in flight
AggTryRecv_DuringCall ==
  /\ agg_pc \in {"collect", "db"}
  /\ IF agg_pc = "db"
       THEN /\ request_q # <<>>
            /\ request_q' = Tail(request_q)
            /\ batch' = Append(batch, Head(request_q))
            /\ UNCHANGED <<agg_pc, agg_last, dispatched>>
       ELSE IF request_q # <<>>
         THEN /\ request_q' = Tail(request_q)
              /\ batch' = Append(batch, Head(request_q))
              /\ IF Len(batch') < MAX_BATCH_SIZE
                   THEN UNCHANGED <<agg_pc, agg_last, dispatched>>
                   ELSE begin_execute_batch(batch', FALSE)
         ELSE /\ UNCHANGED <<request_q, batch>>
              /\ IF tx_alive
                   THEN begin_execute_batch(batch, FALSE)
                   ELSE IF batch # <<>>
                     THEN begin_execute_batch(batch, TRUE)
                     ELSE /\ agg_pc' = "exited"
                          /\ UNCHANGED <<agg_last, dispatched>>
  /\ UNCHANGED <<callers, tx_alive, reply, last_db>>
  /\ UNCHANGED offBatch

\* one request_rx.try_recv() of the collect loop: Ok(req), Empty, Disconnected
AggTryRecv ==
  /\ agg_pc = "collect"
  /\ IF request_q # <<>>
       THEN /\ request_q' = Tail(request_q)
            /\ batch' = Append(batch, Head(request_q))
            /\ IF Len(batch') < MAX_BATCH_SIZE
                 THEN UNCHANGED <<agg_pc, agg_last, dispatched>>
                 ELSE begin_execute_batch(batch', FALSE)
       ELSE /\ UNCHANGED <<request_q, batch>>
            /\ IF tx_alive
                 THEN begin_execute_batch(batch, FALSE)
                 ELSE IF batch # <<>>
                   THEN begin_execute_batch(batch, TRUE)
                   ELSE /\ agg_pc' = "exited"
                        /\ UNCHANGED <<agg_last, dispatched>>
  /\ UNCHANGED <<callers, tx_alive, reply, last_db>>
  /\ UNCHANGED offBatch

\* response_tx.send(outcome): the value is held for a live receiver and
\* handed back (and dropped) when the receiver is gone
send_outcome(ch, outcome) ==
  [ch EXCEPT !.sent = IF ch.rx_alive THEN outcome ELSE "discarded",
             !.sends = @ + 1]

\* execute_batch: execute_batch_transfer(..).await returns
AggDbReturns ==
  /\ agg_pc = "db"
  /\ last_db' \in BatchDbResults(Len(batch))
  /\ agg_pc' = "send"
  /\ UNCHANGED <<callers, request_q, tx_alive, reply, batch, agg_last,
                 dispatched>>
  /\ UNCHANGED offBatch

\* variant: a batch that failed with a serialization failure is run again
AggSendOutcomes_RetriesBatch ==
  /\ agg_pc = "send"
  /\ IF ~last_db.ok /\ last_db.serialization
       THEN /\ agg_pc' = "db"
            /\ last_db' = NoDb
            /\ UNCHANGED <<reply, batch, agg_last>>
       ELSE /\ \E results \in ResultArrays(last_db, Len(batch)) :
                 reply' = [c \in CallerIds |->
                   IF c \in drained(batch, last_db)
                     THEN LET i == CHOOSE j \in 1..Len(batch) : batch[j] = c IN
                          send_outcome(reply[c],
                                       outcome_for(last_db, results, Len(batch), i))
                     ELSE reply[c]]
            /\ batch' = SubSeq(batch, Len(batch) + 1, Len(batch))
            /\ last_db' = NoDb
            /\ agg_pc' = IF agg_last THEN "exited" ELSE "recv"
            /\ agg_last' = FALSE
  /\ UNCHANGED <<callers, request_q, tx_alive, dispatched>>
  /\ UNCHANGED offBatch

\* variant: a failed send ends the processor, the later requests of the batch
\* are sent nothing
AggSendOutcomes_StopsAtDropped ==
  /\ agg_pc = "send"
  /\ LET dead == {j \in 1..Len(batch) : ~reply[batch[j]].rx_alive}
         stop == IF dead = {} THEN Len(batch) + 1
                 ELSE CHOOSE j \in dead : \A k \in dead : j <= k
     IN  /\ \E results \in ResultArrays(last_db, Len(batch)) :
              reply' = [c \in CallerIds |->
                IF c \in drained(batch, last_db)
                     /\ (CHOOSE j \in 1..Len(batch) : batch[j] = c) <= stop
                  THEN LET i == CHOOSE j \in 1..Len(batch) : batch[j] = c IN
                       send_outcome(reply[c],
                                    outcome_for(last_db, results, Len(batch), i))
                  ELSE reply[c]]
         /\ agg_pc' = IF agg_last \/ dead # {} THEN "exited" ELSE "recv"
  /\ batch' = SubSeq(batch, Len(batch) + 1, Len(batch))
  /\ last_db' = NoDb
  /\ agg_last' = FALSE
  /\ UNCHANGED <<callers, request_q, tx_alive, dispatched>>
  /\ UNCHANGED offBatch

\* variant: on a result array of another length execute_batch returns with
\* the batch as it is, nothing is sent
AggSendOutcomes_KeepsOnMismatch ==
  /\ agg_pc = "send"
  /\ IF last_db.ok /\ last_db.len # Len(batch)
       THEN UNCHANGED <<reply, batch>>
       ELSE /\ \E results \in ResultArrays(last_db, Len(batch)) :
                 reply' = [c \in CallerIds |->
                   IF c \in drained(batch, last_db)
                     THEN LET i == CHOOSE j \in 1..Len(batch) : batch[j] = c IN
                          send_outcome(reply[c],
                                       outcome_for(last_db, results, Len(batch), i))
                     ELSE reply[c]]
            /\ batch' = SubSeq(batch, Len(batch) + 1, Len(batch))
  /\ last_db' = NoDb
  /\ agg_pc' = IF agg_last THEN "exited" ELSE "recv"
  /\ agg_last' = FALSE
  /\ UNCHANGED <<callers, request_q, tx_alive, dispatched>>
  /\ UNCHANGED offBatch

\* execute_batch: the match on the result; the outcomes are sent through the
\* reply handles, the batch is drained, execute_batch returns
AggSendOutcomes ==
  /\ agg_pc = "send"
  /\ \E results \in ResultArrays(last_db, Len(batch)) :
       reply' = [c \in CallerIds |->
         IF c \in drained(batch, last_db)
           THEN LET i == CHOOSE j \in 1..Len(batch) : batch[j] = c IN
                send_outcome(reply[c], outcome_for(last_db, results, Len(batch), i))
           ELSE reply[c]]
  /\ batch' = SubSeq(batch, Len(batch) + 1, Len(batch))
  /\ last_db' = NoDb
  /\ agg_pc' = IF agg_last THEN "exited" ELSE "recv"
  /\ agg_last' = FALSE
  /\ UNCHANGED <<callers, request_q, tx_alive, dispatched>>
  /\ UNCHANGED offBatch

NextBatch ==
  \/ \E c \in CallerIds : CallerSend(c)
  \/ \E c \in CallerIds : CallerSendResumes(c)
  \/ \E c \in CallerIds : CallerReceive(c)
  \/ \E c \in CallerIds : CallerCancel(c)
  \/ DropExecutor
  \/ AggRecv
  \/ AggTryRecv
  \/ AggDbReturns
  \/ AggSendOutcomes

----------------------------------------------------------------------------
(* Workload generators and the ledger client's execute_transfer *)

\* what Zipf::sample may return for n accounts: a value of [1, n]
ZipfSamples(n) == 1..n

Min(a, b) == IF a < b THEN a ELSE b

\* AccountSelector::select_account on the sample z: z - 1, clamped to n - 1
select_account(z, n) == Min((z - 1) % U64, (n - 1) % U64)

\* variant: the loop of select_transfer_accounts never resamples
must_resample_Never(s, d) == FALSE

\* the guard of the while loop of select_transfer_accounts
must_resample(s, d) == d = s

\* TransferGenerator::generate_amount: random_range(min_amount..=max_amount)
generate_amount(lo, hi) == lo..hi

\* CreateTransferErrorKind: the four kinds execute_transfer names, and any other
CreateTransferErrorKinds ==
  {"ExceedsCredits", "ExceedsDebits", "DebitAccountNotFound",
   "CreditAccountNotFound", "OtherKind"}

\* Result<(), CreateTransfersError> of client.create_transfers: Ok(()), an Api
\* error carrying the per-transfer errors, a Send error, any other error
TbResults ==
  {[kind |-> k, errors |-> <<>>] : k \in {"Ok", "Send", "Other"}}
  \cup {[kind |-> "Api", errors |-> l] :
          l \in UNION {[1..k -> CreateTransferErrorKinds] : k \in 0..MaxApiErrors}}

\* variant: a missing account is reported as a plain failure
execute_transfer_NotFoundIsFailed(res) ==
  CASE res.kind = "Ok" -> "Success"
    [] res.kind = "Api" ->
         IF res.errors # <<>>
           THEN CASE res.errors[1] \in {"ExceedsCredits", "ExceedsDebits"} ->
                       "InsufficientBalance"
                  [] OTHER -> "Failed"
           ELSE "Failed"
    [] OTHER -> "Err"

\* tigerbeetle.rs execute_transfer: the match on the create_transfers result
execute_transfer(res) ==
  CASE res.kind = "Ok" -> "Success"
    [] res.kind = "Api" ->
         IF res.errors # <<>>
           THEN CASE res.errors[1] \in {"ExceedsCredits", "ExceedsDebits"} ->
                       "InsufficientBalance"
                  [] res.errors[1] \in {"DebitAccountNotFound",
                                        "CreditAccountNotFound"} ->
                       "AccountNotFound"
                  [] OTHER -> "Failed"
           ELSE "Failed"
    [] OTHER -> "Err"

\* AccountSelector::new, TransferGenerator::new over a validated configuration
InitTransfer ==
  /\ num_accounts \in 2..MaxAccounts
  /\ min_amount \in 1..MaxAmount
  /\ max_amount \in min_amount..MaxAmount
  /\ tr_pc = "source"
  /\ source = 0
  /\ dest = 0
  /\ amount = 0
  /\ resampled = FALSE
  /\ request = <<>>
  /\ tb_result = "none"
  /\ tr_ret = "none"

\* select_transfer_accounts: let source = self.select_account(rng)
SelectSource ==
  /\ tr_pc = "source"
  /\ \E z \in ZipfSamples(num_accounts) :
       source' = select_account(z, num_accounts)
  /\ tr_pc' = "dest"
  /\ UNCHANGED <<num_accounts, min_amount, max_amount, dest, amount,
                 resampled, request, tb_result, tr_ret>>
  /\ UNCHANGED offTransfer

\* select_transfer_accounts: let mut dest = self.select_account(rng)
SelectDest ==
  /\ tr_pc = "dest"
  /\ \E z \in ZipfSamples(num_accounts) :
       dest' = select_account(z, num_accounts)
  /\ tr_pc' = "loop"
  /\ UNCHANGED <<num_accounts, min_amount, max_amount, source, amount,
                 resampled, request, tb_result, tr_ret>>
  /\ UNCHANGED offTransfer

\* select_transfer_accounts: one turn of while dest == source
ResampleDest ==
  /\ tr_pc = "loop"
  /\ must_resample(source, dest)
  /\ \E z \in ZipfSamples(num_accounts) :
       dest' = select_account(z, num_accounts)
  /\ resampled' = TRUE
  /\ UNCHANGED <<num_accounts, min_amount, max_amount, tr_pc, source, amount,
                 request, tb_result, tr_ret>>
  /\ UNCHANGED offTransfer

\* select_transfer_accounts: the loop is left, (source, dest) is returned
ReturnPair ==
  /\ tr_pc = "loop"
  /\ ~must_resample(source, dest)
  /\ tr_pc' = "amount"
  /\ UNCHANGED <<num_accounts, min_amount, max_amount, source, dest, amount,
                 resampled, request, tb_result, tr_ret>>
  /\ UNCHANGED offTransfer

\* let amount = transfer_generator.generate_amount(&mut rng)
GenerateAmount ==
  /\ tr_pc = "amount"
  /\ amount' \in generate_amount(min_amount, max_amount)
  /\ tr_pc' = "execute"
  /\ UNCHANGED <<num_accounts, min_amount, max_amount, source, dest,
                 resampled, request, tb_result, tr_ret>>
  /\ UNCHANGED offTransfer

\* the worker calls execute_transfer(&client, source, dest, amount)
SubmitTransfer ==
  /\ tr_pc = "execute"
  /\ request' = <<source, dest, amount>>
  /\ tr_pc' = "await"
  /\ UNCHANGED <<num_accounts, min_amount, max_amount, source, dest, amount,
                 resampled, tb_result, tr_ret>>
  /\ UNCHANGED offTransfer

\* client.create_transfers(..).await returns and execute_transfer maps it
CreateTransfersReturns ==
  /\ tr_pc = "await"
  /\ \E res \in TbResults :
       /\ tb_result' = res
       /\ tr_ret' = execute_transfer(res)
  /\ tr_pc' = "returned"
  /\ UNCHANGED <<num_accounts, min_amount, max_amount, source, dest, amount,
                 resampled, request>>
  /\ UNCHANGED offTransfer

\* the outcome goes to record_transfer_result (see the runner) and the loop
\* body ends: its locals are gone when the next iteration starts
EndIteration ==
  /\ tr_pc = "returned"
  /\ tr_pc' = "source"
  /\ source' = 0
  /\ dest' = 0
  /\ amount' = 0
  /\ resampled' = FALSE
  /\ request' = <<>>
  /\ tb_result' = "none"
  /\ tr_ret' = "none"
  /\ UNCHANGED <<num_accounts, min_amount, max_amount>>
  /\ UNCHANGED offTransfer

NextTransfer ==
  \/ SelectSource
  \/ SelectDest
  \/ ResampleDest
  \/ ReturnPair
  \/ GenerateAmount
  \/ SubmitTransfer
  \/ CreateTransfersReturns
  \/ EndIteration

----------------------------------------------------------------------------
(* Functions of the coordinator and of the configuration, called once *)

NoCall == [fn |-> "none"]
NoRet == [fn |-> "none"]

\* a ledger without accounts
EmptyLedger ==
  [accounts |-> [a \in 1..MaxAccounts |->
                   [exists |-> FALSE, credits_posted |-> 0, debits_posted |-> 0]],
   bank |-> FALSE]

NoSetup == [ops |-> 0, inits |-> 0]

\* the submitter before it is spawned
NoSubmitter ==
  [pc |-> "none", start |-> 0, next_submit |-> 0, scheduled |-> <<>>,
   in_flight |-> 0, stop |-> FALSE]

\* no backend is set up
IdleSetup == tb = EmptyLedger /\ pg = <<>> /\ setup = NoSetup

\* the clock is not looked at
IdleTime == now = 0 /\ submit = NoSubmitter /\ spawned = <<>>

\* no call is made and no backend is set up, for the other specifications
IdleCall ==
  /\ call = NoCall /\ ret = NoRet
  /\ IdleSetup
  /\ IdleTime

\* variant: the next range starts one item after the end of the previous one
next_batch_start_Gap(batch_start) == batch_start + BATCH_SIZE + 1

\* (0..total).step_by(BATCH_SIZE): the start that follows batch_start
next_batch_start(batch_start) == batch_start + BATCH_SIZE

\* what the k-th invocation of process_batched's callback answers: an error,
\* or a count
BatchAnswers == {[ok |-> FALSE, value |-> 0]} \cup {[ok |-> TRUE, value |-> v] : v \in 0..2}

\* process_batched: the loop from batch_start on, `sum` accumulated and
\* `calls` the ranges the callback was invoked on so far; answers[k] is what
\* the k-th invocation returns
RECURSIVE process_batched_from(_, _, _, _, _)
process_batched_from(batch_start, total, answers, sum, calls) ==
  IF batch_start >= total
    THEN [fn |-> "process_batched", ok |-> TRUE, sum |-> sum, calls |-> calls]
    ELSE LET batch_end == Min((batch_start + BATCH_SIZE) % U64, total)
             invoked == Append(calls, <<batch_start, batch_end>>)
             answer == answers[Len(invoked)]
         IN  IF answer.ok
               THEN process_batched_from(next_batch_start(batch_start), total,
                                         answers, sum + answer.value, invoked)
               ELSE [fn |-> "process_batched", ok |-> FALSE, sum |-> 0,
                     calls |-> invoked]

process_batched(total, answers) ==
  process_batched_from(0, total, answers, 0, <<>>)

\* process_batched(total, process_batch).await returns
ProcessBatchedReturns ==
  /\ call.fn = "process_batched"
  /\ ret = NoRet
  /\ ret' = process_batched(call.total, call.answers)
  /\ UNCHANGED <<call, offCall>>

----------------------------------------------------------------------------
(* The submitter of run_fixed_rate against the clock: when each grid tick   *)
(* is scheduled, when it really runs, and the latency its task measures.    *)
(* The clock moves on its own; a sleep may return late.                     *)

NANOS_PER_SEC == 1000000000

\* rates whose interval is 2, 1 and 0 nanoseconds
TimedRates == {333333334, 1000000000, 2000000000}

\* let interval_ns = 1_000_000_000 / target_rate
interval_ns(rate) == NANOS_PER_SEC \div rate

\* variant of advance: the next tick is scheduled from when this one ran
advance_FromNow(next_submit, clock, expected_interval) ==
  clock + expected_interval

\* next_submit += expected_interval
advance(next_submit, clock, expected_interval) ==
  next_submit + expected_interval

\* scheduled_time.elapsed(): Instant::now() - scheduled_time, zero if negative
elapsed(instant) == IF now >= instant THEN now - instant ELSE 0

\* time passes, at any moment
TimePasses ==
  /\ call.fn = "run_fixed_rate"
  /\ now < MaxTime
  /\ now' = now + 1
  /\ UNCHANGED <<submit, spawned, callVars, offTime>>

\* the submitter task starts: let mut next_submit = Instant::now()
SubmitterStarts ==
  /\ call.fn = "run_fixed_rate"
  /\ submit.pc = "none"
  /\ submit' = [submit EXCEPT !.pc = "top", !.start = now, !.next_submit = now]
  /\ UNCHANGED <<now, spawned, callVars, offTime>>

\* run_phases stores the stop flag
TimedStoreStop ==
  /\ submit.pc # "none"
  /\ ~submit.stop
  /\ submit' = [submit EXCEPT !.stop = TRUE]
  /\ UNCHANGED <<now, spawned, callVars, offTime>>

\* while !stop.load(): the loop ends, or the submitter reads the clock and
\* sleeps if the tick is not due yet
SubmitterLoopTop ==
  /\ submit.pc = "top"
  /\ submit' = [submit EXCEPT !.pc =
                   IF submit.stop THEN "stopped"
                   ELSE IF now < submit.next_submit THEN "sleep"
                   ELSE "due"]
  /\ UNCHANGED <<now, spawned, callVars, offTime>>

\* tokio::time::sleep(next_submit - now) returns, at next_submit or later
SubmitterWakes ==
  /\ submit.pc = "sleep"
  /\ now >= submit.next_submit
  /\ submit' = [submit EXCEPT !.pc = "due"]
  /\ UNCHANGED <<now, spawned, callVars, offTime>>

\* one grid tick: scheduled_time is taken and the schedule advanced, then the
\* concurrency check drops the request or the task is spawned
SubmitterTicks ==
  /\ submit.pc = "due"
  /\ Len(submit.scheduled) < MaxGridTicks
  /\ LET scheduled_time == submit.next_submit
         dropping == submit.in_flight >= call.max_concurrency
     IN  /\ submit' = [submit EXCEPT
                         !.pc = "top",
                         !.next_submit = advance(submit.next_submit, now,
                                                 interval_ns(call.target_rate)),
                         !.scheduled = Append(@, scheduled_time),
                         !.in_flight = IF dropping THEN @ ELSE @ + 1]
         /\ spawned' = IF dropping THEN spawned
                       ELSE Append(spawned,
                                   [tick |-> Len(submit.scheduled),
                                    scheduled_time |-> scheduled_time,
                                    spawned_at |-> now,
                                    done |-> FALSE, finished_at |-> 0,
                                    latency |-> 0])
  /\ UNCHANGED <<now, callVars, offTime>>

\* fixed_rate_transfer_task: execute returned; the latency is taken and
\* in_flight released
TimedTaskFinishes(t) ==
  /\ t \in 1..Len(spawned)
  /\ ~spawned[t].done
  /\ spawned' = [spawned EXCEPT ![t].done = TRUE, ![t].finished_at = now,
                                ![t].latency = elapsed(spawned[t].scheduled_time)]
  /\ submit' = [submit EXCEPT !.in_flight = @ - 1]
  /\ UNCHANGED <<now, callVars, offTime>>

NextTimed ==
  \/ TimePasses
  \/ SubmitterStarts
  \/ TimedStoreStop
  \/ SubmitterLoopTop
  \/ SubmitterWakes
  \/ SubmitterTicks
  \/ \E t \in 1..MaxGridTicks : TimedTaskFinishes(t)

----------------------------------------------------------------------------
(* execute_batch of postgres.rs called once, on a batch and on what the     *)
(* server answers, with every kind of result code                           *)

\* SMALLINT codes batch_transfers may return: the four documented ones, a
\* negative one and one above FAILED
AllResultCodes == {-1, 0, 1, 2, 3, 4}

\* the batches: distinct requests (named by their callers) in dequeue order
Batches ==
  {b \in UNION {[1..n -> 1..MAX_BATCH_SIZE] : n \in 0..MAX_BATCH_SIZE} :
     \A i, j \in 1..Len(b) : i # j => b[i] # b[j]}

\* what execute_batch_transfer returns: an error, or the codes of the row
\* (their number is the server's choice)
BatchTransferAnswers ==
  {[ok |-> FALSE, codes |-> <<>>]}
    \cup {[ok |-> TRUE, codes |-> c] :
            c \in UNION {[1..n -> AllResultCodes] : n \in 0..(MAX_BATCH_SIZE + 1)}}

\* variant of zipped: the results are paired with the batch back to front
zipped_Reversed(b, results) ==
  [i \in 1..Len(b) |-> [to |-> b[i], outcome |-> results[Len(b) + 1 - i]]]

\* batch.drain(..).zip(result_vec.into_iter()), each pair a send
zipped(b, results) ==
  [i \in 1..Len(b) |-> [to |-> b[i], outcome |-> results[i]]]

\* execute_batch: the sends it makes, in order, for batch b when
\* execute_batch_transfer answered `answer`
execute_batch(b, answer) ==
  LET db == [ok |-> answer.ok, len |-> Len(answer.codes)]
      result_vec == [i \in 1..Len(answer.codes) |-> decode_result(answer.codes[i])]
  IN  IF lengths_match(db, Len(b))
        THEN zipped(b, result_vec)
        ELSE [i \in 1..Len(b) |-> [to |-> b[i], outcome |-> "Failed"]]

\* execute_batch(pool, isolation_level, &mut batch).await returns
ExecuteBatchReturns ==
  /\ call.fn = "execute_batch"
  /\ ret = NoRet
  /\ ret' = [fn |-> "execute_batch", sends |-> execute_batch(call.batch, call.answer)]
  /\ UNCHANGED <<call, setupVars, offSetup>>

----------------------------------------------------------------------------
(* Config::from_file and Config::validate of config.rs.  An Option is a set *)
(* with at most one element; an f64 is its class and its sign.              *)

F64s ==
  {[nan |-> FALSE, inf |-> FALSE, sign |-> -1],     \* a negative number
   [nan |-> FALSE, inf |-> FALSE, sign |-> 0],      \* 0.0 and -0.0
   [nan |-> FALSE, inf |-> FALSE, sign |-> 1],      \* a positive number
   [nan |-> FALSE, inf |-> TRUE, sign |-> -1],
   [nan |-> FALSE, inf |-> TRUE, sign |-> 1],
   [nan |-> TRUE, inf |-> FALSE, sign |-> 0]}

\* x < 0.0 (false for NaN)
lt_zero(x) == ~x.nan /\ x.sign < 0
is_nan(x) == x.nan
is_infinite(x) == x.inf

WorkloadConfigs ==
  [test_mode : {"max_throughput", "fixed_rate", "closed_loop"},
   concurrency : {{}, {1}},
   target_rate : {{}, {1}},
   max_concurrency : {{}, {1}},
   num_accounts : {1, 2},
   zipfian_exponent : F64s,
   min_transfer_amount : {1, 2},
   max_transfer_amount : {1, 2},
   test_duration_secs : {0, 1}]

PostgresqlConfigs == {{}} \cup {{[connection_pool_size |-> n]} : n \in {0, 1}}
TigerBeetleConfigs ==
  {{}} \cup {{[cluster_addresses |-> a]} : a \in {<<>>, <<"3000">>}}

\* the sub-sections: every value for the one database.type selects, absent
\* or well-formed for the other one
DatabaseConfigs ==
  {d \in [kind : {"PostgreSQL", "TigerBeetle"},
          postgresql : PostgresqlConfigs,
          tigerbeetle : TigerBeetleConfigs] :
     /\ d.kind = "PostgreSQL" => d.tigerbeetle # {[cluster_addresses |-> <<>>]}
     /\ d.kind = "TigerBeetle" => d.postgresql # {[connection_pool_size |-> 0]}}

\* a local deployment names no nodes and no region
DeploymentConfigs ==
  {d \in [kind : {"Local", "Cloud"}, num_client_nodes : {{}, {1}},
          aws_region : {{}, {"eu-west-1"}}] :
     d.kind = "Local" => (d.num_client_nodes = {} /\ d.aws_region = {})}

CoordinatorConfigs ==
  [test_runs : {0, 1},
   max_variance_threshold : {[nan |-> FALSE, inf |-> FALSE, sign |-> 1],
                             [nan |-> TRUE, inf |-> FALSE, sign |-> 0]}]

\* anyhow::Result<()>
Valid == [ok |-> TRUE, err |-> ""]
bail(msg) == [ok |-> FALSE, err |-> msg]

\* variant: fixed_rate is accepted without max_concurrency
test_mode_NoMaxConcurrency(workload) ==
  IF workload.test_mode = "max_throughput"
    THEN IF workload.concurrency = {}
           THEN bail("max_throughput mode requires 'concurrency' field")
           ELSE Valid
  ELSE IF workload.test_mode = "fixed_rate"
    THEN IF workload.target_rate = {}
           THEN bail("fixed_rate mode requires 'target_rate' field")
           ELSE Valid
  ELSE bail("Invalid test_mode")

\* WorkloadConfig::test_mode, as far as it succeeds
test_mode(workload) ==
  IF workload.test_mode = "max_throughput"
    THEN IF workload.concurrency = {}
           THEN bail("max_throughput mode requires 'concurrency' field")
           ELSE Valid
  ELSE IF workload.test_mode = "fixed_rate"
    THEN IF workload.target_rate = {}
           THEN bail("fixed_rate mode requires 'target_rate' field")
         ELSE IF workload.max_concurrency = {}
           THEN bail("fixed_rate mode requires 'max_concurrency' field")
           ELSE Valid
  ELSE bail("Invalid test_mode")

\* Config::validate, its checks in the order of the code
validate(config) ==
  LET workload == config.workload
      database == config.database
      deployment == config.deployment
      coordinator == config.coordinator
  IN  IF ~test_mode(workload).ok THEN test_mode(workload)
      ELSE IF database.kind = "PostgreSQL" /\ database.postgresql = {}
        THEN bail("PostgreSQL database type requires [postgresql] configuration section")
      ELSE IF database.kind = "PostgreSQL"
              /\ \E pg_config \in database.postgresql : pg_config.connection_pool_size = 0
        THEN bail("connection_pool_size must be >= 1")
      ELSE IF database.kind = "TigerBeetle" /\ database.tigerbeetle = {}
        THEN bail("TigerBeetle database type requires [tigerbeetle] configuration section")
      ELSE IF database.kind = "TigerBeetle"
              /\ \E tb_config \in database.tigerbeetle : tb_config.cluster_addresses = <<>>
        THEN bail("cluster_addresses must not be empty")
      ELSE IF deployment.kind = "Cloud" /\ deployment.num_client_nodes = {}
        THEN bail("Cloud deployment requires num_client_nodes to be specified")
      ELSE IF deployment.kind = "Cloud" /\ deployment.aws_region = {}
        THEN bail("Cloud deployment requires aws_region to be specified")
      ELSE IF workload.num_accounts < 2
        THEN bail("num_accounts must be >= 2")
      ELSE IF workload.test_duration_secs = 0
        THEN bail("test_duration_secs must be >= 1")
      ELSE IF workload.min_transfer_amount > workload.max_transfer_amount
        THEN bail("min_transfer_amount must be <= max_transfer_amount")
      ELSE IF lt_zero(workload.zipfian_exponent)
        THEN bail("zipfian_exponent must be >= 0.0")
      ELSE IF is_nan(workload.zipfian_exponent) \/ is_infinite(workload.zipfian_exponent)
        THEN bail("zipfian_exponent must be a finite number")
      ELSE IF is_nan(coordinator.max_variance_threshold)
              \/ is_infinite(coordinator.max_variance_threshold)
        THEN bail("max_variance_threshold must be a finite number")
      ELSE IF coordinator.test_runs = 0
        THEN bail("test_runs must be >= 1")
      ELSE Valid

\* Config::from_file once the file is read and parsed: config.validate()?
from_file(config) ==
  LET validated == validate(config)
  IN  [fn |-> "from_file", ok |-> validated.ok, err |-> validated.err]

\* Config::from_file(path) returns
FromFileReturns ==
  /\ call.fn = "from_file"
  /\ ret = NoRet
  /\ ret' = from_file(call.config)
  /\ UNCHANGED <<call, setupVars, offSetup>>

----------------------------------------------------------------------------
(* The coordinator's set-up of the backends: tigerbeetle_setup.rs,          *)
(* postgres_setup.rs and the resets of TestRunner::run                      *)

\* calls of the set-up functions one behaviour may make
MaxSetupOps == 3

\* the k-th range process_batched hands to its callback
batch_range(k, total) ==
  <<(k - 1) * BATCH_SIZE, Min(k * BATCH_SIZE, total)>>

\* (batch_start..batch_end).map(|id| id + 1): the account ids of a range
ids_of(range) == {id + 1 : id \in range[1]..(range[2] - 1)}

\* the account ids of the ranges a process_batched call was answered Ok on
ids_processed(r) ==
  UNION {ids_of(r.calls[k]) : k \in 1..(IF r.ok THEN Len(r.calls) ELSE Len(r.calls) - 1)}

\* answers of the callback: Ok(len of the range), except an error at `bad`
answers_failing_at(bad, total) ==
  [k \in 1..MaxTotal |->
     IF k = bad THEN [ok |-> FALSE, value |-> 0]
     ELSE [ok |-> TRUE, value |-> batch_range(k, total)[2] - batch_range(k, total)[1]]]

\* a transfer of initial_balance from the bank, with a fresh id, posts
fund(account, initial_balance) ==
  [account EXCEPT !.credits_posted = @ + initial_balance]

\* init_accounts(n, initial_balance) on a ledger: what it returns and the ledger it leaves, for
\* every answer of the cluster.  send_err is the batch of create_accounts
\* that fails to send (0: none; the `?` returns there), rejected the accounts
\* the cluster refuses with an error other than Exists (warned only),
\* bank_ok whether the bank account gets created, unfunded the accounts whose
\* funding transfer does not post (the batch error is warned only)
init_accounts_outcomes(ledger, n, initial_balance) ==
  { [ok |-> o.send_err = 0,
     tb |->
       LET creation == process_batched(n,
                         answers_failing_at(o.send_err, n))
           created == ids_processed(creation) \ o.rejected
           exist == {a \in 1..MaxAccounts : ledger.accounts[a].exists} \cup created
       IN  IF o.send_err # 0
             THEN [ledger EXCEPT !.accounts =
                     [a \in 1..MaxAccounts |->
                        [ledger.accounts[a] EXCEPT !.exists = a \in exist]]]
             ELSE [accounts |->
                     [a \in 1..MaxAccounts |->
                        LET account == [ledger.accounts[a] EXCEPT !.exists = a \in exist]
                        IN  IF a \in 1..n /\ a \notin o.unfunded
                              THEN fund(account, initial_balance)
                              ELSE account],
                   bank |-> ledger.bank \/ o.bank_ok] ] :
    o \in { x \in [send_err : 0..MaxTotal,
                    rejected : SUBSET (1..n),
                    bank_ok : BOOLEAN,
                    unfunded : SUBSET (1..n)] :
              /\ x.send_err <= (n + BATCH_SIZE - 1) \div BATCH_SIZE
              /\ \A a \in x.rejected : ~ledger.accounts[a].exists
              /\ x.send_err # 0 => (x.unfunded = {} /\ ~x.bank_ok)
              /\ \A a \in 1..n :
                   (a \in x.rejected \/ ~(ledger.bank \/ x.bank_ok)) => a \in x.unfunded } }

\* credits_posted().saturating_sub(debits_posted())
balance_of(account) ==
  IF account.credits_posted >= account.debits_posted
    THEN account.credits_posted - account.debits_posted
    ELSE 0

\* lookup_accounts answers for the accounts that exist; their balances summed
RECURSIVE batch_balance(_, _)
batch_balance(ledger, ids) ==
  IF ids = {} THEN 0
  ELSE LET a == CHOOSE x \in ids : TRUE
       IN  (IF ledger.accounts[a].exists THEN balance_of(ledger.accounts[a]) ELSE 0)
           + batch_balance(ledger, ids \ {a})

\* tigerbeetle_setup::verify_total_balance; lookup_err is the batch whose
\* lookup fails (0: none)
tb_verify_total_balance(ledger, n, expected, lookup_err) ==
  LET total_balance ==
        process_batched(n,
          [k \in 1..MaxTotal |->
             IF k = lookup_err THEN [ok |-> FALSE, value |-> 0]
             ELSE [ok |-> TRUE,
                   value |-> batch_balance(ledger, ids_of(batch_range(k, n)))]])
  IN  [ok |-> total_balance.ok,
       value |-> total_balance.ok /\ total_balance.sum = expected]

RECURSIVE SumSeq(_)
SumSeq(q) == IF q = <<>> THEN 0 ELSE Head(q) + SumSeq(Tail(q))

\* postgres_setup::verify_total_balance: SELECT SUM(balance), parsed as u64
\* (the sum over no rows is NULL and does not parse)
pg_verify_total_balance(rows, expected, psql_ok) ==
  IF ~psql_ok \/ rows = <<>>
    THEN [ok |-> FALSE, value |-> FALSE]
    ELSE [ok |-> TRUE, value |-> SumSeq(rows) = expected]

expected_total == call.num_accounts * call.initial_balance

\* one more set-up call is recorded
called(fn, ok, value) ==
  /\ ret' = [fn |-> fn, ok |-> ok, value |-> value, after |-> ret.fn,
             after_ok |-> (ret # NoRet /\ ret.ok)]
  /\ UNCHANGED <<call, offSetup>>

\* TestRunner::run, ledger: tigerbeetle_setup::init_accounts(..).await
InitAccounts ==
  /\ call.fn = "run" /\ call.kind = "tigerbeetle"
  /\ setup.ops < MaxSetupOps
  /\ \E o \in init_accounts_outcomes(tb, call.num_accounts, call.initial_balance) :
       /\ tb' = o.tb
       /\ setup' = [ops |-> setup.ops + 1,
                    inits |-> IF o.ok THEN setup.inits + 1 ELSE setup.inits]
       /\ called("init_accounts", o.ok, FALSE)
  /\ UNCHANGED pg

\* TestRunner::run, ledger, between runs: restart_service("tigerbeetle"),
\* the two waits, init_accounts.  A failed `rm -f -s -v` is only logged and
\* leaves the data in place; a failed `up -d` or wait returns the error
ResetLedger ==
  /\ call.fn = "run" /\ call.kind = "tigerbeetle"
  /\ setup.ops < MaxSetupOps
  /\ \E rm_ok \in BOOLEAN, up_ok \in BOOLEAN :
       LET restarted == IF rm_ok THEN EmptyLedger ELSE tb
           before == IF rm_ok THEN 0 ELSE setup.inits
       IN  IF ~up_ok
             THEN /\ tb' = restarted
                  /\ setup' = [ops |-> setup.ops + 1, inits |-> before]
                  /\ called("reset", FALSE, FALSE)
             ELSE \E o \in init_accounts_outcomes(restarted, call.num_accounts,
                                                  call.initial_balance) :
                    /\ tb' = o.tb
                    /\ setup' = [ops |-> setup.ops + 1,
                                 inits |-> IF o.ok THEN before + 1 ELSE before]
                    /\ called("reset", o.ok, FALSE)
  /\ UNCHANGED pg

\* postgres_setup::reset_database: TRUNCATE and INSERT in one psql command
\* (both or neither), then checkpoint and vacuum_analyze, each able to fail
ResetDatabase ==
  /\ call.fn = "run" /\ call.kind = "postgresql"
  /\ setup.ops < MaxSetupOps
  /\ \E sql_ok \in BOOLEAN, maintenance_ok \in BOOLEAN :
       /\ pg' = IF sql_ok
                  THEN [a \in 1..call.num_accounts |-> call.initial_balance]
                  ELSE pg
       /\ called("reset", sql_ok /\ maintenance_ok, FALSE)
  /\ setup' = [setup EXCEPT !.ops = @ + 1]
  /\ UNCHANGED tb

\* TestRunner::run: verify_total_balance(expected_total) of the backend
VerifyTotalBalance ==
  /\ call.fn = "run"
  /\ setup.ops < MaxSetupOps
  /\ \/ /\ call.kind = "tigerbeetle"
        /\ \E lookup_err \in 0..((call.num_accounts + BATCH_SIZE - 1) \div BATCH_SIZE) :
             LET v == tb_verify_total_balance(tb, call.num_accounts,
                                              expected_total, lookup_err)
             IN  called("verify_total_balance", v.ok, v.value)
     \/ /\ call.kind = "postgresql"
        /\ \E psql_ok \in BOOLEAN :
             LET v == pg_verify_total_balance(pg, expected_total, psql_ok)
             IN  called("verify_total_balance", v.ok, v.value)
  /\ setup' = [setup EXCEPT !.ops = @ + 1]
  /\ UNCHANGED <<tb, pg>>

NextSetup == InitAccounts \/ ResetLedger \/ ResetDatabase \/ VerifyTotalBalance

----------------------------------------------------------------------------
(* Specifications *)

\* a runner that is never started, for the executor specifications
IdleRunner ==
  InitRunner /\ mode = "max_throughput" /\ max_concurrency = 0
             /\ warmup_duration = 0

\* a generator that is never used, for the other specifications
IdleTransfer ==
  InitTransfer /\ num_accounts = 2 /\ min_amount = 1 /\ max_amount = 1

\* a run with a warm-up
Init ==
  InitRunner /\ warmup_duration > 0 /\ InitRetry /\ InitBatch /\ IdleTransfer
             /\ IdleCall
Next == NextRunner
Spec == Init /\ [][Next]_vars

InitExecutors ==
  IdleRunner /\ InitRetry /\ InitBatch /\ IdleTransfer /\ IdleCall

SpecRetry == InitExecutors /\ [][NextRetry]_vars

SpecBatch == InitExecutors /\ [][NextBatch]_vars

\* the next step of the aggregator task
batch_processor == AggRecv \/ AggTryRecv \/ AggDbReturns \/ AggSendOutcomes

\* the aggregator task is scheduled and every database call returns
SpecBatchFair ==
  /\ InitExecutors
  /\ [][NextBatch]_vars
  /\ WF_vars(batch_processor)

\* a call of execute suspended in send or in response_rx.await is woken
caller_wakes == \E c \in CallerIds : CallerSendResumes(c) \/ CallerReceive(c)

\* a task of the executor that is ready to run: the aggregator (every database
\* call returns) or a caller whose send or receive became ready
ready_task == batch_processor \/ caller_wakes

\* the runtime goes on running the ready tasks. Weak fairness of their
\* disjunction is assumed, which fairness of each task implies: a caller
\* takes at most two such steps, so the others are not kept out for ever.
SpecBatchCallFair ==
  /\ InitExecutors
  /\ [][NextBatch]_vars
  /\ WF_vars(ready_task)

\* a run in fixed_rate mode: run_fixed_rate, its submitter and its tasks
InitFixedRate == Init /\ mode = "fixed_rate"

NextFixedRate ==
  \/ StartFixedRate
  \/ StoreMeasurement
  \/ SnapshotWarmupCount
  \/ StoreStop
  \/ JoinSubmitter
  \/ DrainDone
  \/ LogStats
  \/ SubmitterTop
  \/ SubmitterTick
  \/ SubmitterCheck
  \/ SubmitterSpawn
  \/ \E t \in TaskIds : TaskExecuteReturns(t)
  \/ \E t \in TaskIds : TaskReadPhase(t)
  \/ \E t \in TaskIds : TaskRecordMetric(t)
  \/ \E t \in TaskIds : TaskCount(t)
  \/ \E t \in TaskIds : TaskRelease(t)

\* every task of the run is scheduled, every execute call returns, the phase
\* controller's sleeps end
FairSpec == InitFixedRate /\ [][NextFixedRate]_vars /\ WF_vars(NextFixedRate)

\* a run in max_throughput mode: run_max_throughput and its workers
InitMaxThroughput == Init /\ mode = "max_throughput"

NextMaxThroughput ==
  \/ StartMaxThroughput
  \/ StoreMeasurement
  \/ SnapshotWarmupCount
  \/ StoreStop
  \/ JoinWorkers
  \/ LogStats
  \/ \E w \in WorkerIds : WorkerTop(w)
  \/ \E w \in WorkerIds : WorkerExecuteReturns(w)
  \/ \E w \in WorkerIds : WorkerPanics(w)
  \/ \E w \in WorkerIds : WorkerReadPhase(w)
  \/ \E w \in WorkerIds : WorkerRecordMetric(w)
  \/ \E w \in WorkerIds : WorkerCount(w)

\* a run in max_throughput mode without warm-up: run_phases' first sleep is
\* sleep(Duration::ZERO)
InitZeroWarmup ==
  /\ InitRunner /\ warmup_duration = 0 /\ mode = "max_throughput"
  /\ InitRetry /\ InitBatch /\ IdleTransfer /\ IdleCall

SpecZeroWarmup == InitZeroWarmup /\ [][NextMaxThroughput]_vars

\* every worker is scheduled, every execute call ends, the phase controller's
\* sleeps end
SpecMaxThroughputFair ==
  /\ InitMaxThroughput
  /\ [][NextMaxThroughput]_vars
  /\ WF_vars(NextMaxThroughput)

InitGenerators ==
  IdleRunner /\ InitRetry /\ InitBatch /\ InitTransfer /\ IdleCall

\* The draws of the generators are random: a resample that differs from the
\* source has positive probability at every turn, so it is not avoided for ever.
ResampleDiffers == ResampleDest /\ dest' # source

SpecTransfer ==
  /\ InitGenerators
  /\ [][NextTransfer]_vars
  /\ WF_vars(NextTransfer)
  /\ SF_vars(ResampleDiffers)

\* the client does nothing while a function of the coordinator is called
IdleClient == IdleRunner /\ InitRetry /\ InitBatch /\ IdleTransfer

InitProcessBatched ==
  /\ IdleClient
  /\ \E total \in 0..MaxTotal, answers \in [1..MaxTotal -> BatchAnswers] :
       call = [fn |-> "process_batched", total |-> total, answers |-> answers]
  /\ ret = NoRet
  /\ IdleSetup /\ IdleTime

SpecProcessBatched == InitProcessBatched /\ [][ProcessBatchedReturns]_vars

\* run_fixed_rate(target_rate, max_concurrency) with a positive rate
InitTimed ==
  /\ IdleClient
  /\ \E rate \in TimedRates, cap \in 1..MaxCap :
       call = [fn |-> "run_fixed_rate", target_rate |-> rate,
               max_concurrency |-> cap]
  /\ ret = NoRet
  /\ IdleSetup /\ IdleTime

SpecTimed == InitTimed /\ [][NextTimed]_vars

\* a batch taken from the queue and the answer of the server to it
InitExecuteBatch ==
  /\ IdleClient
  /\ \E b \in Batches, answer \in BatchTransferAnswers :
       call = [fn |-> "execute_batch", batch |-> b, answer |-> answer]
  /\ ret = NoRet
  /\ IdleSetup /\ IdleTime

SpecExecuteBatch == InitExecuteBatch /\ [][ExecuteBatchReturns]_vars

\* a parsed configuration file
InitFromFile ==
  /\ IdleClient
  /\ \E workload \in WorkloadConfigs, database \in DatabaseConfigs,
        deployment \in DeploymentConfigs, coordinator \in CoordinatorConfigs :
       call = [fn |-> "from_file",
               config |-> [workload |-> workload, database |-> database,
                           deployment |-> deployment, coordinator |-> coordinator]]
  /\ ret = NoRet
  /\ IdleSetup /\ IdleTime

SpecFromFile == InitFromFile /\ [][FromFileReturns]_vars

\* TestRunner::run with the backend and the workload section of its config
InitSetup ==
  /\ IdleClient
  /\ \E kind \in {"postgresql", "tigerbeetle"}, n \in 2..MaxAccounts,
        b \in 1..MaxAmount :
       call = [fn |-> "run", kind |-> kind, num_accounts |-> n,
               initial_balance |-> b]
  /\ ret = NoRet
  /\ IdleSetup /\ IdleTime

SpecSetup == InitSetup /\ [][NextSetup]_vars

----------------------------------------------------------------------------
(* Properties of the runners (checked under Spec) *)

\* tasks that were spawned and have not yet done their in_flight.fetch_sub
LiveTasks == {t \in TaskIds : tasks[t].pc \notin {"none", "done"}}

Recorded(l) == completed[l] + rejected[l] + failed[l]

TaskRecords(t) == tasks[t].pc = "record" /\ tasks'[t].pc # "record"
WorkerRecords(w) == workers[w].pc = "record" /\ workers'[w].pc # "record"

\* C3: an outcome whose execute returned after phase_flag became Measurement
\* is counted under phase = measurement and not under warmup, also when the
\* transfer was issued during warmup (both runners).
C3_PhaseAtRecordTime ==
  [][ /\ \A t \in TaskIds :
           TaskRecords(t) /\ tasks[t].ret_phase = "Measurement" =>
             /\ Recorded("measurement")' = Recorded("measurement") + 1
             /\ Recorded("warmup")' = Recorded("warmup")
      /\ \A w \in WorkerIds :
           WorkerRecords(w) /\ workers[w].ret_phase = "Measurement" =>
             /\ Recorded("measurement")' = Recorded("measurement") + 1
             /\ Recorded("warmup")' = Recorded("warmup")
    ]_vars

\* a worker's transfer issued in warmup, returned after the flip, has just been
\* counted under measurement
C3_Witness ==
  \E w \in WorkerIds :
    /\ workers[w].pc = "count"
    /\ workers[w].spawn_phase = "Warmup"
    /\ workers[w].ret_phase = "Measurement"
    /\ Recorded("measurement") = 1
    /\ Recorded("warmup") = 0

\* C4: phase_flag only goes from Warmup to Measurement and stop_flag only
\* from false to true.
C4_FlagsMonotonic ==
  [][ /\ phase_flag => phase_flag'
      /\ stop_flag => stop_flag' ]_vars

\* the run has gone through both stores and finished
C4_Witness ==
  /\ phase_flag
  /\ stop_flag
  /\ run_pc = "returned_ok"

\* what one record_transfer_result call with this result and phase must do to
\* the metrics, and whether it goes on to completed_count
RecorderEffect(result, phase, goes_on) ==
  LET l == as_str(phase)
      Bump(c) == c' = [c EXCEPT ![l] = @ + 1]
  IN  /\ dropped' = dropped
      /\ completed_count' = completed_count
      /\ CASE result = "Success" ->
                /\ Bump(completed) /\ Bump(latency_us)
                /\ rejected' = rejected /\ failed' = failed
                /\ goes_on
           [] result = "InsufficientBalance" ->
                /\ Bump(rejected) /\ Bump(latency_us)
                /\ completed' = completed /\ failed' = failed
                /\ goes_on
           [] OTHER ->
                /\ Bump(failed)
                /\ completed' = completed /\ rejected' = rejected
                /\ latency_us' = latency_us
                /\ ~goes_on

TaskCounts(t) == tasks[t].pc = "count" /\ tasks'[t].pc # "count"
WorkerCounts(w) == workers[w].pc = "count" /\ workers'[w].pc # "count"

\* C5: a record_transfer_result call bumps exactly one of completed / rejected
\* / failed (by result), emits a latency sample only for Success and
\* InsufficientBalance, and adds exactly 1 to completed_count for those two
\* and nothing for AccountNotFound, Failed and an error return.
C5_RecorderTable ==
  [][ /\ \A t \in TaskIds :
           /\ TaskRecords(t) =>
                RecorderEffect(tasks[t].result, tasks[t].phase,
                               tasks'[t].pc = "count")
           /\ TaskCounts(t) =>
                /\ completed_count' = completed_count + 1
                /\ UNCHANGED metricVars
      /\ \A w \in WorkerIds :
           /\ WorkerRecords(w) =>
                RecorderEffect(workers[w].result, workers[w].phase,
                               workers'[w].pc = "count")
           /\ WorkerCounts(w) =>
                /\ completed_count' = completed_count + 1
                /\ UNCHANGED metricVars
      /\ completed_count' # completed_count =>
           \/ \E t \in TaskIds : TaskCounts(t)
           \/ \E w \in WorkerIds : WorkerCounts(w)
    ]_vars

\* one outcome that counts as progress and one that does not have been recorded
C5_Witness ==
  /\ completed_count = 1
  /\ completed["warmup"] + completed["measurement"] = 1
  /\ failed["warmup"] + failed["measurement"] = 1
  /\ latency_us["warmup"] + latency_us["measurement"] = 1

SubmitterChecks == sub_pc = "check" /\ sub_pc' # "check"
SubmitterSpawns == sub_pc = "spawn" /\ sub_pc' # "spawn"

\* C9: dropped is bumped only by the submitter's check when it reads
\* in_flight >= max_concurrency, and that tick creates no task, records no
\* outcome and leaves in_flight alone; a check reading in_flight <
\* max_concurrency counts no drop and is followed by the spawn of exactly one
\* task.
C9_DropOnlyAtCap ==
  [][ /\ dropped' # dropped =>
           /\ SubmitterChecks
           /\ in_flight >= max_concurrency
      /\ SubmitterChecks /\ in_flight >= max_concurrency =>
           /\ dropped' = [dropped EXCEPT ![as_str(sub_phase)] = @ + 1]
           /\ UNCHANGED <<completed, rejected, failed, latency_us>>
           /\ UNCHANGED <<in_flight, tasks, completed_count>>
           /\ sub_pc' = "top"
      /\ SubmitterChecks /\ in_flight < max_concurrency =>
           /\ UNCHANGED metricVars
           /\ sub_pc' = "spawn"
      /\ SubmitterSpawns =>
           /\ tasks[ticks].pc = "none"
           /\ tasks'[ticks].pc = "exec"
           /\ \A t \in TaskIds \ {ticks} : tasks'[t] = tasks[t]
           /\ in_flight' = in_flight + 1
           /\ UNCHANGED metricVars
    ]_vars

\* one tick spawned a task and a later one was dropped at the cap
C9_Witness ==
  /\ dropped["warmup"] + dropped["measurement"] >= 1
  /\ \E t \in TaskIds : tasks[t].pc # "none"
  /\ max_concurrency >= 1

\* grid ticks at which the submitter read phase p
TicksIn(p) == Cardinality({k \in 1..Len(grid) : grid[k] = p})

\* transfers spawned at a warmup tick and recorded under measurement
CarriedOver ==
  Cardinality({t \in TaskIds : /\ tasks[t].tick_phase = "Warmup"
                               /\ tasks[t].phase = "Measurement"})

OpenLoopDrained == mode = "fixed_rate" /\ run_pc = "returned_ok"

\* C10 as claimed: after drain the measurement-labelled counters add up to the
\* number of grid ticks that fell in the measurement window.
C10_AsClaimed ==
  OpenLoopDrained =>
    Recorded("measurement") + dropped["measurement"] = TicksIn("Measurement")

\* C10, amended: after drain the measurement-labelled counters add up to the
\* number of grid ticks in the measurement window plus the number of transfers
\* spawned at a warmup tick whose outcome was recorded after the flip.
C10_MeasurementSum ==
  OpenLoopDrained =>
    Recorded("measurement") + dropped["measurement"]
      = TicksIn("Measurement") + CarriedOver

\* a drained run with a tick in each window and a transfer carried over
C10_Witness ==
  /\ OpenLoopDrained
  /\ TicksIn("Measurement") >= 1
  /\ CarriedOver >= 1

\* workers with an execute call in progress
Executing == {w \in WorkerIds : workers[w].pc = "exec"}

\* workers holding a transfer that was issued and is not recorded (yet, or
\* ever: the task failed inside execute)
Unrecorded ==
  {w \in WorkerIds : workers[w].pc \in {"exec", "returned", "record", "panicked"}}

C13_AtMostOneEach ==
  mode = "max_throughput" =>
    /\ Cardinality(Executing) <= max_concurrency
    /\ \A w \in WorkerIds : w > max_concurrency => workers[w].pc = "none"
    /\ issued - (Recorded("warmup") + Recorded("measurement"))
         = Cardinality(Unrecorded)
    /\ Cardinality(Unrecorded) <= max_concurrency

\* C13: in a closed-loop run with N workers at most N execute calls are in
\* progress, every transfer issued and not yet recorded belongs to a worker
\* of its own, and a worker enters execute only from the top of its loop,
\* which it reaches only when spawned or after recording the previous outcome.
C13_ClosedLoopBounded ==
  /\ []C13_AtMostOneEach
  /\ [][ \A w \in WorkerIds :
           /\ (workers'[w].pc = "exec" /\ workers[w].pc # "exec")
                => workers[w].pc = "top"
           /\ (workers'[w].pc = "top" /\ workers[w].pc # "top")
                => workers[w].pc \in {"none", "record", "count"}
      ]_vars

\* every worker of a two-worker run is inside execute
C13_Witness ==
  /\ mode = "max_throughput"
  /\ max_concurrency >= 2
  /\ Cardinality(Executing) = max_concurrency

----------------------------------------------------------------------------
(* Properties of execute_transfer_with_retry (checked under SpecRetry) *)

IsSerializationError(o) == ~o.ok /\ is_serialization_failure(o.error)

IsPrefix(a, b) == Len(a) <= Len(b) /\ \A k \in 1..Len(a) : a[k] = b[k]

\* every backoff sleep follows an attempt that failed with a serialization
\* failure, and there are at most 5 of them
RetriesOnlyAfterSerializationFailure ==
  /\ Len(delays) <= 5
  /\ Len(delays) = retries
  /\ \A k \in 1..Len(delays) : IsSerializationError(attempts[k])

\* C6 as claimed: at most 5 retries, the sleep before the k-th retry being
\* 10, 20, 40, 80, 160 ms.
C6_AsClaimed ==
  /\ RetriesOnlyAfterSerializationFailure
  /\ IsPrefix(delays, <<10, 20, 40, 80, 160>>)

\* C6, amended: at most 5 retries, the sleep before the k-th retry being
\* 10 * 2^k ms, i.e. 20, 40, 80, 160, 320 ms.
C6_Backoff ==
  /\ RetriesOnlyAfterSerializationFailure
  /\ IsPrefix(delays, <<20, 40, 80, 160, 320>>)

\* all five retries have been slept for
C6_Witness == delays = <<20, 40, 80, 160, 320>>

LastAttempt == attempts[Len(attempts)]

\* C7: execute_transfer is called at most 6 times per execute; when all 6
\* attempts fail with a serialization failure execute returns Ok(Failed); an
\* Ok(result) of any attempt ends the call and is what execute returns.
C7_ExhaustedIsFailed ==
  /\ Len(attempts) <= 6
  /\ \A k \in 1..(Len(attempts) - 1) : IsSerializationError(attempts[k])
  /\ rt_pc = "done" =>
       /\ (Len(attempts) = 6 /\ IsSerializationError(LastAttempt))
            => rt_ret = Ok("Failed")
       /\ LastAttempt.ok => rt_ret = Ok(LastAttempt.result)

\* six serialization failures in a row, and execute has returned
C7_Witness ==
  /\ rt_pc = "done"
  /\ Len(attempts) = 6
  /\ \A k \in 1..6 : IsSerializationError(attempts[k])
  /\ rt_ret = Ok("Failed")

\* C8 as claimed: an attempt failing with an error that is no serialization
\* failure is not retried and execute returns that error, whatever the number
\* of retries before it.
C8_AsClaimed ==
  (/\ rt_pc \in {"sleep", "done"}
   /\ ~LastAttempt.ok
   /\ ~is_serialization_failure(LastAttempt.error))
  => /\ rt_pc = "done"
     /\ rt_ret = Err(LastAttempt.error)

----------------------------------------------------------------------------
(* Properties of the batched executor (checked under SpecBatch) *)

Members(b) == {b[i] : i \in 1..Len(b)}

\* requests the aggregator has taken off the queue
Dequeued ==
  {c \in CallerIds : /\ callers[c].pc \in {"wait", "done", "cancelled"}
                     /\ c \notin Members(request_q)}

\* requests whose execute_batch has returned
Answered == Dequeued \ Members(batch)

ProtocolMismatch(b) == last_db.ok /\ last_db.len # Len(b)

\* the step of execute_batch that sends the outcomes
Delivers == agg_pc = "send" /\ agg_pc' # "send"

\* execute_batch_transfer failed, or answered with an array of another length
BatchFailed(db, b) == ~db.ok \/ db.len # Len(b)

C2_Delivered ==
  /\ \A c \in CallerIds :
       IF c \in Answered
         THEN reply[c].sends = 1 /\ reply[c].sent # "none"
         ELSE reply[c].sends = 0 /\ reply[c].sent = "none"
  /\ agg_pc \in {"recv", "exited"} => batch = <<>>
  /\ Cardinality(Members(dispatched)) = Len(dispatched)
  /\ agg_pc \in {"db", "send"} => dispatched = batch
  /\ agg_pc \notin {"db", "send"} => Members(dispatched) \subseteq Answered

\* C2: once execute_batch has returned for a batch of size B, each of its B
\* reply handles has been sent exactly one outcome (B sends in all) and the
\* batch buffer is empty; when the database call failed or returned an array
\* of another length, all B outcomes are Failed. No outcome is sent to a
\* request before its batch's execute_batch returns. (A send through a handle
\* whose receiver was dropped counts as sent: its error is ignored and the
\* outcome discarded.)
C2_BatchOutcomes ==
  /\ []C2_Delivered
  /\ [][ Delivers =>
           \A c \in Members(batch) :
             /\ reply'[c].sends = reply[c].sends + 1
             /\ reply[c].rx_alive =>
                  /\ reply'[c].sent \in TransferResults
                  /\ BatchFailed(last_db, batch) => reply'[c].sent = "Failed"
             /\ ~reply[c].rx_alive => reply'[c].sent = "discarded"
      ]_vars

\* a full batch is about to be answered for an array of the wrong length, an
\* earlier batch having been answered already
C2_Witness ==
  /\ agg_pc = "send"
  /\ Len(batch) = MAX_BATCH_SIZE
  /\ ProtocolMismatch(batch)
  /\ \E c \in Answered : reply[c].sent \in TransferResults

\* serialization failure or not, execute_batch_transfer returned an error
DbFailed == ~last_db.ok /\ last_db # NoDb

\* C15: when the batch database call fails (at connection acquisition, BEGIN,
\* batch_transfers or COMMIT, a serialization failure included) or returns an
\* array of another length, every request of the batch is sent Failed, and the
\* batch is not submitted again: execute_batch returns with the batch drained,
\* nothing is put back on the queue, and no request that was answered is ever
\* queued or batched again.
C15_BatchFailureIsFinal ==
  /\ [](\A c \in Members(request_q) \cup Members(batch) : reply[c].sends = 0)
  /\ [][ (Delivers /\ BatchFailed(last_db, batch)) =>
           /\ \A c \in Members(batch) :
                /\ reply'[c].sends = 1
                /\ reply[c].rx_alive => reply'[c].sent = "Failed"
           /\ batch' = <<>>
           /\ request_q' = request_q
           /\ agg_pc' \in {"recv", "exited"}
      ]_vars

\* a full batch failed at COMMIT with a serialization failure, after an earlier
\* batch had been answered
C15_Witness ==
  /\ agg_pc = "send"
  /\ DbFailed
  /\ last_db.stage = "commit"
  /\ last_db.serialization
  /\ Len(batch) = MAX_BATCH_SIZE
  /\ Answered # {}

C16_Bounded ==
  /\ Len(request_q) <= QueueCapacity
  /\ Len(batch) <= MAX_BATCH_SIZE
  /\ agg_pc \in {"db", "send"} => Len(batch) >= 1
  /\ \A c \in CallerIds :
       /\ callers[c].pc # "error"
       /\ callers[c].pc = "blocked" =>
            /\ c \notin Members(request_q) \cup Members(batch)
            /\ reply[c] = NoReply

\* C16: a dispatched batch holds between 1 and MAX_BATCH_SIZE requests, the
\* queue never holds more than 2 * MAX_BATCH_SIZE, and a caller whose send
\* finds the queue full is neither refused nor dropped: it stays suspended
\* until its request is appended to the queue.
C16_BackPressure ==
  /\ []C16_Bounded
  /\ [][ \A c \in CallerIds :
           /\ (callers[c].pc = "idle" /\ callers'[c].pc = "blocked")
                => \/ Len(request_q) = QueueCapacity
                   \/ ~no_earlier_waiter(c)
           /\ (callers[c].pc = "blocked" /\ callers'[c].pc # "blocked")
                => /\ callers'[c].pc = "wait"
                   /\ request_q' = Append(request_q, c)
      ]_vars

\* the queue is full and a caller is suspended in send
C16_Witness ==
  /\ Len(request_q) = QueueCapacity
  /\ \E c \in CallerIds : callers[c].pc = "blocked"

\* C17: when outcomes are sent to a batch of which a reply receiver was
\* dropped, that send is discarded, every other request of the batch is sent
\* its outcome, and the aggregator goes back to receiving (it ends only when
\* the batch was the one of the closed channel).
C17_DroppedReplyIgnored ==
  [][ (Delivers /\ \E d \in Members(batch) : ~reply[d].rx_alive) =>
        /\ \A c \in Members(batch) :
             /\ reply'[c].sends = 1
             /\ IF reply[c].rx_alive
                  THEN reply'[c].sent \in TransferResults
                  ELSE reply'[c].sent = "discarded"
        /\ agg_pc' = IF agg_last THEN "exited" ELSE "recv"
    ]_vars

\* of a batch of two, the first request's reply was discarded and the second
\* one holds its outcome; the aggregator is receiving again
C17_Witness ==
  /\ agg_pc = "recv"
  /\ Len(dispatched) = 2
  /\ reply[dispatched[1]].sent = "discarded"
  /\ reply[dispatched[2]].sent \in TransferResults

\* requests that were put on the queue
Enqueued == {c \in CallerIds : callers[c].pc \in {"wait", "done", "cancelled"}}

C18_NothingLeft ==
  agg_pc = "exited" =>
    /\ ~tx_alive
    /\ request_q = <<>>
    /\ batch = <<>>
    /\ \A c \in Enqueued : reply[c].sends = 1

\* C18: once every sender handle is dropped the aggregator ends, and when it
\* has ended the queue and the batch are empty and every request that was
\* enqueued has been sent its outcome.
C18_DrainsOnClose ==
  /\ []C18_NothingLeft
  /\ (~tx_alive) ~> (agg_pc = "exited")

\* the channel is closed and the batch collected before the closure was seen
\* is in execution
C18_Witness ==
  /\ ~tx_alive
  /\ agg_pc = "send"
  /\ agg_last
  /\ batch # <<>>

Last(q) == q[Len(q)]

\* C19 as claimed: when the batch transaction fails at BEGIN, at the
\* batch_transfers call or at COMMIT, the last statement sent on the
\* connection before the error is returned is a ROLLBACK.
C19_AsClaimed ==
  (agg_pc = "send" /\ DbFailed /\ last_db.stage \in {"begin", "query", "commit"})
    => Last(statements_issued(last_db.stage)) = "ROLLBACK"

----------------------------------------------------------------------------
(* Properties of the generators and of the ledger client (checked under    *)
(* SpecTransfer)                                                           *)

Submitted == Len(request) = 3

\* C11 as claimed: the source and the destination of every submitted transfer
\* lie in 1..num_accounts, the ids the backend was initialised with.
C11_AsClaimed ==
  Submitted =>
    /\ request[1] \in 1..num_accounts
    /\ request[2] \in 1..num_accounts

\* the triple handed to execute has distinct accounts and an amount in range
C12_Triple ==
  Submitted =>
    /\ request[1] # request[2]
    /\ min_amount <= request[3]
    /\ request[3] <= max_amount

\* C12: every submitted (source, dest, amount) has source # dest and
\* min_amount <= amount <= max_amount, and with at least two accounts the
\* resample loop of select_transfer_accounts is always left.
C12_ValidTriples ==
  /\ []C12_Triple
  /\ (tr_pc = "loop" /\ num_accounts >= 2) ~> (tr_pc = "amount")

\* with two accounts, a pair that needed a resample has been submitted
C12_Witness ==
  /\ Submitted
  /\ num_accounts = 2
  /\ resampled
  /\ tr_pc = "await"

FirstKindIn(S) ==
  /\ tb_result.kind = "Api"
  /\ tb_result.errors # <<>>
  /\ tb_result.errors[1] \in S

\* C14: execute_transfer returns Success when create_transfers reports no
\* error, InsufficientBalance when the first API error is ExceedsCredits or
\* ExceedsDebits, AccountNotFound when it is DebitAccountNotFound or
\* CreditAccountNotFound, Failed for any other API error and for an empty
\* error list, and an error (no outcome) for a send failure.
C14_LedgerMapping ==
  tr_ret # "none" =>
    /\ tb_result.kind = "Ok" => tr_ret = "Success"
    /\ FirstKindIn({"ExceedsCredits", "ExceedsDebits"})
         => tr_ret = "InsufficientBalance"
    /\ FirstKindIn({"DebitAccountNotFound", "CreditAccountNotFound"})
         => tr_ret = "AccountNotFound"
    /\ FirstKindIn({"OtherKind"}) => tr_ret = "Failed"
    /\ (tb_result.kind = "Api" /\ tb_result.errors = <<>>) => tr_ret = "Failed"
    /\ tb_result.kind = "Send" => tr_ret = "Err"
    /\ tr_ret = "Success" => tb_result.kind = "Ok"
    /\ tr_ret \in TransferResults => tb_result.kind \in {"Ok", "Api"}

\* two API errors came back and the first one decided the outcome
C14_Witness ==
  /\ tr_ret = "AccountNotFound"
  /\ tb_result.kind = "Api"
  /\ tb_result.errors = <<"CreditAccountNotFound", "ExceedsCredits">>

----------------------------------------------------------------------------
(* C20: run_fixed_rate reports only after the drain *)

\* run_fixed_rate is past its drain loop: it logs statistics or has returned Ok
Reporting == mode = "fixed_rate" /\ run_pc \in {"log", "returned_ok"}

C20_Drained ==
  Reporting =>
    /\ sub_pc = "exited"
    /\ in_flight = 0
    /\ LiveTasks = {}

\* C20: run_fixed_rate logs statistics and returns Ok only after the submitter
\* has ended and in_flight was read as 0: by then every spawned transfer task
\* has recorded its outcome and released its slot, none is abandoned; and, every
\* execute call returning, a run that reaches the drain loop leaves it and
\* returns.
C20_DrainBeforeStats ==
  /\ []C20_Drained
  /\ (run_pc = "drain") ~> (run_pc = "returned_ok")

\* the drain loop was left and statistics are being logged, after a run in
\* which a spawned task completed a transfer once warmup_count was taken
C20_Witness ==
  /\ Reporting
  /\ run_pc = "log"
  /\ \E t \in TaskIds : tasks[t].pc = "done"
  /\ completed_count > warmup_count

----------------------------------------------------------------------------
(* C21, C22: tear-down and failures of the closed loop *)

\* workers that were spawned and whose task has not ended
RunningWorkers ==
  {w \in WorkerIds : workers[w].pc \notin {"none", "stopped", "panicked"}}

\* run_max_throughput is past its join loop
Joined == mode = "max_throughput" /\ run_pc \in {"log", "returned_ok"}

C21_JoinedAll == Joined => RunningWorkers = {}

\* C21: once stop_flag is set no worker starts another transfer (at most the
\* one in progress is finished); run_max_throughput logs statistics and
\* returns only when no worker task is running any more; and, every execute
\* call ending, the run does reach that return.
C21_TearDown ==
  /\ []C21_JoinedAll
  /\ [][ stop_flag =>
           /\ issued' = issued
           /\ \A w \in WorkerIds :
                workers'[w].pc = "exec" => workers[w].pc = "exec"
      ]_vars
  /\ <>(run_pc = "returned_ok")

\* stop is set while one worker is inside execute and another is recording
C21_Witness ==
  /\ mode = "max_throughput"
  /\ stop_flag
  /\ run_pc = "join"
  /\ \E w \in WorkerIds : workers[w].pc = "exec"
  /\ \E w \in WorkerIds : workers[w].pc \in {"returned", "record", "count"}

\* outcomes of execute that are no progress: Ok(Failed), Ok(AccountNotFound)
\* and Err(_)
FailureResults == {"Failed", "AccountNotFound", "Err"}

\* the step in which worker w records a failure
WorkerRecordsFailure(w) ==
  /\ workers[w].pc = "record"
  /\ workers[w].result \in FailureResults
  /\ workers'[w].pc # "record"

\* the step in which transfer task t records a failure
TaskRecordsFailure(t) ==
  /\ tasks[t].pc = "record"
  /\ tasks[t].result \in FailureResults
  /\ tasks'[t].pc # "record"

\* the step in which worker w's task fails
WorkerFails(w) == workers[w].pc # "panicked" /\ workers'[w].pc = "panicked"

\* C22: a worker that records Failed, AccountNotFound or an error return goes
\* back to the top of its loop; that step, the same step of a fixed-rate
\* transfer task, and the failure of a worker task leave the other workers
\* and tasks, the submitter and the run where they are; a run returns an
\* error only from its start with target_rate = 0, and after statistics it
\* returns Ok whatever the outcomes were.
C22_FailuresDoNotAbort ==
  [][ /\ \A w \in WorkerIds :
           /\ WorkerRecordsFailure(w) => workers'[w].pc = "top"
           /\ (WorkerRecordsFailure(w) \/ WorkerFails(w)) =>
                /\ \A v \in WorkerIds \ {w} : workers'[v] = workers[v]
                /\ run_pc' = run_pc
      /\ \A t \in TaskIds :
           TaskRecordsFailure(t) =>
             /\ \A u \in TaskIds \ {t} : tasks'[u] = tasks[u]
             /\ sub_pc' = sub_pc
             /\ run_pc' = run_pc
      /\ run_pc' = "returned_err" => (run_pc = "start" /\ target_rate = 0)
      /\ run_pc = "log" => run_pc' = "returned_ok"
      /\ (run_pc = "join" /\ run_pc' # "join") =>
           \A w \in WorkerIds : workers[w].pc \in {"none", "stopped", "panicked"}
    ]_vars

\* a closed-loop run returned Ok although one worker task failed and every
\* outcome that was recorded is a failure
C22_Witness ==
  /\ mode = "max_throughput"
  /\ run_pc = "returned_ok"
  /\ \E w \in WorkerIds : workers[w].pc = "panicked"
  /\ failed["warmup"] + failed["measurement"] >= 1
  /\ measurement_count = 0
  /\ completed_count = 0

----------------------------------------------------------------------------
(* C23: target_rate = 0 *)

\* nothing of a run has happened: no submitter, no task, no worker, the flags
\* and every counter as constructed
Untouched ==
  /\ sub_pc = "none"
  /\ ticks = 0
  /\ tasks = [t \in TaskIds |-> NoTask]
  /\ workers = [w \in WorkerIds |-> NoWorker]
  /\ issued = 0
  /\ in_flight = 0
  /\ ~stop_flag /\ ~phase_flag
  /\ completed_count = 0
  /\ completed = ZeroCounter /\ rejected = ZeroCounter
  /\ failed = ZeroCounter /\ dropped = ZeroCounter
  /\ latency_us = ZeroCounter

\* C23: run_fixed_rate with target_rate = 0 goes from its start to the error
\* return and nowhere else, and when it has returned the error no submitter
\* was spawned, no phase was started, no execute call was issued and no
\* counter was changed.
C23_ZeroRateRejected ==
  /\ (mode = "fixed_rate" /\ target_rate = 0) =>
       /\ run_pc \in {"start", "returned_err"}
       /\ Untouched
  /\ run_pc = "returned_err" => (mode = "fixed_rate" /\ target_rate = 0)

\* run_fixed_rate(0, _) has returned its error
C23_Witness == run_pc = "returned_err" /\ target_rate = 0

----------------------------------------------------------------------------
(* C24: no warm-up (checked under SpecZeroWarmup) *)

\* run_phases has taken its snapshot of completed_count
SnapshotTaken == run_pc \notin {"start", "warmup", "snapshot"}

\* C24 as claimed: with warmup_duration = 0 the value run_phases returns as
\* warmup_count is 0, however the workers spawned before it interleave.
C24_AsClaimed ==
  (warmup_duration = 0 /\ SnapshotTaken) => warmup_count = 0

----------------------------------------------------------------------------
(* C28: process_batched (checked under SpecProcessBatched) *)

\* ceil(a / b)
CeilDiv(a, b) == (a + b - 1) \div b

\* the invocations before the first one that answers an error, or all
FirstError(answers, n) ==
  IF \E k \in 1..n : ~answers[k].ok
    THEN CHOOSE k \in 1..n : ~answers[k].ok /\ \A j \in 1..(k - 1) : answers[j].ok
    ELSE 0

RECURSIVE SumValues(_, _)
SumValues(answers, n) ==
  IF n = 0 THEN 0 ELSE answers[n].value + SumValues(answers, n - 1)

\* C28: process_batched(total, f) invokes f on consecutive half-open ranges
\* that start at 0, follow one another without gap or overlap in ascending
\* order and hold at most BATCH_SIZE items each; when no invocation fails
\* there are ceil(total / BATCH_SIZE) of them (none for total = 0), they end
\* at total, and the sum of f's results is returned; when one fails, that
\* error is returned and f is not invoked again.
C28_Partition ==
  ret.fn = "process_batched" =>
    LET calls == ret.calls
        n == Len(calls)
        full == CeilDiv(call.total, BATCH_SIZE)
        bad == FirstError(call.answers, full)
    IN  /\ \A k \in 1..n :
             /\ calls[k][1] < calls[k][2]
             /\ calls[k][2] - calls[k][1] <= BATCH_SIZE
             /\ calls[k][1] = IF k = 1 THEN 0 ELSE calls[k - 1][2]
        /\ IF bad = 0
             THEN /\ ret.ok
                  /\ n = full
                  /\ n > 0 => calls[n][2] = call.total
                  /\ ret.sum = SumValues(call.answers, n)
             ELSE /\ ~ret.ok
                  /\ n = bad

\* three ranges were processed, the last one shorter than BATCH_SIZE
C28_Witness ==
  /\ ret.fn = "process_batched"
  /\ ret.ok
  /\ Len(ret.calls) = 3
  /\ ret.calls[3][2] - ret.calls[3][1] < BATCH_SIZE
  /\ ret.sum > 0

----------------------------------------------------------------------------
(* C25, C26: the set-up of the backends (checked under SpecSetup) *)

\* C25 as the claim states it: when init_accounts has returned Ok twice on
\* the same ledger, every account 1..num_accounts exists and has the balance
\* initial_balance, as after one call.
C25_AsClaimed ==
  (call.fn = "run" /\ setup.inits = 2 /\ ret.fn = "init_accounts" /\ ret.ok) =>
    \A a \in 1..call.num_accounts :
      /\ tb.accounts[a].exists
      /\ balance_of(tb.accounts[a]) = call.initial_balance

\* C26 as the claim states it: a verify_total_balance that returns right
\* after a reset that returned Ok (reset_database, or the restart followed
\* by init_accounts) returns true.
C26_AsClaimed ==
  (ret.fn = "verify_total_balance" /\ ret.ok /\ ret.after = "reset" /\ ret.after_ok)
    => ret.value

----------------------------------------------------------------------------
(* C27: Config::validate (checked under SpecFromFile) *)

\* the conditions the claim lists
C27_Listed(config) ==
  /\ config.database.kind = "PostgreSQL" => config.database.postgresql # {}
  /\ config.database.kind = "TigerBeetle" => config.database.tigerbeetle # {}
  /\ config.workload.num_accounts >= 2
  /\ config.workload.test_duration_secs >= 1
  /\ config.workload.min_transfer_amount <= config.workload.max_transfer_amount
  /\ ~config.workload.zipfian_exponent.nan
  /\ ~config.workload.zipfian_exponent.inf
  /\ config.workload.zipfian_exponent.sign >= 0
  /\ \/ /\ config.workload.test_mode = "max_throughput"
        /\ config.workload.concurrency # {}
     \/ /\ config.workload.test_mode = "fixed_rate"
        /\ config.workload.target_rate # {}
        /\ config.workload.max_concurrency # {}

\* C27: Config::from_file, through Config::validate, returns Ok only for a
\* configuration whose sub-section matching database.type is present, with
\* num_accounts >= 2, test_duration_secs >= 1, min_transfer_amount <=
\* max_transfer_amount, a finite zipfian_exponent >= 0 and a test_mode of
\* max_throughput with concurrency or fixed_rate with target_rate and
\* max_concurrency; a configuration violating any of these, or naming another
\* test_mode, gets an error.
C27_ValidateRejects ==
  ret.fn = "from_file" => (ret.ok => C27_Listed(call.config))

\* a fixed-rate configuration for the ledger is accepted
C27_Witness ==
  /\ ret.fn = "from_file"
  /\ ret.ok
  /\ call.config.workload.test_mode = "fixed_rate"
  /\ call.config.database.kind = "TigerBeetle"
  /\ call.config.workload.min_transfer_amount = call.config.workload.max_transfer_amount

----------------------------------------------------------------------------
(* C30: results reach the requests by position (checked under               *)
(* SpecExecuteBatch)                                                        *)

\* the table of the claim
C30_Outcome(code) ==
  IF code = 0 THEN "Success"
  ELSE IF code = 1 THEN "InsufficientBalance"
  ELSE IF code = 2 THEN "AccountNotFound"
  ELSE "Failed"

\* C30: when the batch call succeeds with as many result codes as the batch
\* has requests, the request at position i is sent exactly one outcome, the
\* one decoded from code i (0 Success, 1 InsufficientBalance,
\* 2 AccountNotFound, 3 and every other code Failed), and nothing else is
\* sent.
C30_ByPosition ==
  (ret.fn = "execute_batch" /\ call.answer.ok
     /\ Len(call.answer.codes) = Len(call.batch)) =>
    /\ Len(ret.sends) = Len(call.batch)
    /\ \A i \in 1..Len(call.batch) :
         /\ ret.sends[i].to = call.batch[i]
         /\ ret.sends[i].outcome = C30_Outcome(call.answer.codes[i])

\* two requests got different outcomes, the second dequeued one a success
C30_Witness ==
  /\ ret.fn = "execute_batch"
  /\ call.answer.ok
  /\ Len(call.batch) = 2
  /\ call.batch = <<2, 1>>
  /\ call.answer.codes = <<3, 0>>
  /\ ret.sends[2] = [to |-> 1, outcome |-> "Success"]

----------------------------------------------------------------------------
(* C29: the grid of the open-loop submitter (checked under SpecTimed) *)

\* C29: the k-th grid tick (k = 0, 1, ...) of the submitter is scheduled at
\* start + k * interval, interval = 10^9 / target_rate nanoseconds, however
\* late the ticks ran and whether or not earlier ticks were dropped; a tick
\* takes its place on the grid even when its request is dropped; and the
\* latency a spawned transfer records is the time from its tick's scheduled
\* time to its completion, not the time since it was spawned.
C29_FixedGrid ==
  call.fn = "run_fixed_rate" =>
    LET interval == NANOS_PER_SEC \div call.target_rate
    IN  /\ \A k \in 0..(Len(submit.scheduled) - 1) :
             submit.scheduled[k + 1] = submit.start + k * interval
        /\ \A t \in 1..Len(spawned) :
             /\ spawned[t].scheduled_time = submit.start + spawned[t].tick * interval
             /\ spawned[t].done =>
                  spawned[t].latency = spawned[t].finished_at
                                         - (submit.start + spawned[t].tick * interval)

\* the first tick was spawned and the second dropped; the third ran late and
\* its transfer has recorded a latency longer than the time since its spawn
C29_Witness ==
  /\ Len(submit.scheduled) = 3
  /\ Len(spawned) = 2
  /\ spawned[2].tick = 2
  /\ spawned[2].spawned_at > spawned[2].scheduled_time
  /\ spawned[2].done
  /\ spawned[2].latency > spawned[2].finished_at - spawned[2].spawned_at
  /\ submit.start > 0

----------------------------------------------------------------------------
(* C31, C32, C33: the counters and flags of the phase controller (checked   *)
(* under Spec)                                                              *)

\* the outcomes the metrics count as completed or rejected, over both labels
Progress ==
  completed["warmup"] + rejected["warmup"]
    + completed["measurement"] + rejected["measurement"]

\* C31 as the claim states it: in every state, completed_count equals the
\* completed and rejected counters summed over both phases, i.e. no state
\* shows a metric counter incremented and completed_count not yet.
C31_AsClaimed == completed_count = Progress

\* C32: whenever stop_flag is true, phase_flag is Measurement: Stop is never
\* published while the phase is still Warmup.
C32_StopAfterMeasurement == stop_flag => phase_flag

\* Stop is published while a worker is still in its execute call
C32_Witness ==
  /\ stop_flag
  /\ phase_flag
  /\ \E w \in WorkerIds : workers[w].pc = "exec"

\* log_stats has computed measurement_count
StatsLogged == measurement_count # -1

\* C33: completed_count never decreases; hence the warmup_count returned by
\* run_phases is at most completed_count from then on, in particular when
\* log_stats reads it, and measurement_count = total_count - warmup_count is
\* computed without underflow.
C33_CountsMonotonic ==
  /\ [][completed_count' >= completed_count]_vars
  /\ [](warmup_count # -1 => warmup_count <= completed_count)
  /\ [](StatsLogged =>
         /\ measurement_count >= 0
         /\ measurement_count + warmup_count = completed_count)

\* transfers completed in both phases and the statistics were logged
C33_Witness ==
  /\ StatsLogged
  /\ warmup_count > 0
  /\ measurement_count > 0

----------------------------------------------------------------------------
(* C34: one record per execute, no re-execution (checked under Spec) *)

\* the tasks the submitter has spawned, and those whose outcome is not
\* recorded yet
SpawnedTasks == {t \in TaskIds : tasks[t].pc # "none"}
UnrecordedTasks == {t \in TaskIds : tasks[t].pc \in {"exec", "returned", "record"}}

\* workers whose execute call has returned or may still return
PendingWorkers == {w \in WorkerIds : workers[w].pc \in {"exec", "returned", "record"}}

\* C34: every execute call a runner issues gets exactly one
\* record_transfer_result for its result: the recorded outcomes and the calls
\* still to be recorded (or lost with a failed task) add up to the calls
\* issued, and none is left when the run returns; and no result is executed
\* again: a worker enters execute only from the top of its loop with a newly
\* issued transfer and no result at hand, a spawned task enters it once.
C34_OneRecordPerExecute ==
  /\ [](mode = "max_throughput" =>
          issued = Recorded("warmup") + Recorded("measurement")
                     + Cardinality(Unrecorded))
  /\ [](mode = "fixed_rate" =>
          Cardinality(SpawnedTasks)
            = Recorded("warmup") + Recorded("measurement")
                + Cardinality(UnrecordedTasks))
  /\ [](run_pc = "returned_ok" => (PendingWorkers = {} /\ UnrecordedTasks = {}))
  /\ [][ /\ \A w \in WorkerIds :
              (workers'[w].pc = "exec" /\ workers[w].pc # "exec") =>
                /\ workers[w].pc = "top"
                /\ issued' = issued + 1
                /\ workers'[w].result = "none"
         /\ \A t \in TaskIds :
              (tasks'[t].pc = "exec" /\ tasks[t].pc # "exec") => tasks[t].pc = "none"
       ]_vars

\* a worker recorded a failure and a further transfer was issued
C34_Witness ==
  /\ mode = "max_throughput"
  /\ max_concurrency = 1
  /\ failed["warmup"] = 1
  /\ issued = 2
  /\ workers[1].pc = "exec"

----------------------------------------------------------------------------
(* C36, C37, C40: the submitter at the stop, the warm-up snapshot, the      *)
(* accounting of the grid ticks (checked under Spec)                        *)

\* C36: once stop_flag is stored the submitter processes at most one more
\* grid tick: a tick is processed only by a submitter that has passed the
\* loop top and waits for next_submit, it is one tick, and with stop_flag
\* stored the submitter does not pass the loop top again.
C36_AtMostOneMoreTick ==
  /\ [][(stop_flag /\ ticks' # ticks) => (sub_pc = "tick" /\ ticks' = ticks + 1)]_vars
  /\ [][(stop_flag /\ sub_pc # "tick") => sub_pc' # "tick"]_vars
  /\ [][sub_pc = "exited" => (sub_pc' = "exited" /\ ticks' = ticks)]_vars

\* the stop is stored while the submitter sleeps until its second tick
C36_Witness ==
  /\ stop_flag
  /\ sub_pc = "tick"
  /\ ticks = 1

\* C37 as the claim states it: when the run has returned, the warmup_count
\* that run_phases returned equals the number of Success and
\* InsufficientBalance outcomes recorded under the label warmup.
C37_AsClaimed ==
  run_pc = "returned_ok" =>
    warmup_count = completed["warmup"] + rejected["warmup"]

\* the submitter is between taking a tick and disposing of its request
TickInHand == IF sub_pc \in {"check", "spawn"} THEN 1 ELSE 0

\* C40: in an open-loop run every grid tick yields exactly one dropped count
\* or one spawned task, and a spawned task records exactly one of completed,
\* rejected, failed; so after the drain completed + rejected + failed +
\* dropped over both labels equals the number of ticks the submitter took.
C40_TicksAccounted ==
  mode = "fixed_rate" =>
    /\ ticks = dropped["warmup"] + dropped["measurement"]
                 + Cardinality(SpawnedTasks) + TickInHand
    /\ Cardinality(SpawnedTasks)
         = Recorded("warmup") + Recorded("measurement") + Cardinality(UnrecordedTasks)
    /\ OpenLoopDrained =>
         Recorded("warmup") + Recorded("measurement")
           + dropped["warmup"] + dropped["measurement"] = ticks

\* a drained run with one request dropped and one recorded
C40_Witness ==
  /\ OpenLoopDrained
  /\ ticks = 2
  /\ dropped["warmup"] + dropped["measurement"] = 1
  /\ Recorded("warmup") + Recorded("measurement") = 1

----------------------------------------------------------------------------
(* C35, C38: the aggregator is one sequential task (checked under SpecBatch) *)

\* execute_batch is running: its database call is in flight or has returned
\* and the outcomes are not sent yet
InExecuteBatch == agg_pc \in {"db", "send"}

\* C35: at most one batch transaction is in progress. The batch in execution
\* is the one handed to execute_batch and is not touched while it runs; a
\* result of the database call is held only while execute_batch runs; the
\* aggregator takes requests off the queue and enters execute_batch only when
\* no call is in progress, the earlier batch having been sent all its
\* outcomes; and no step of a caller touches the batch, the call or its result.
C35_OneBatchAtATime ==
  /\ [](InExecuteBatch => batch = dispatched)
  /\ [](last_db # NoDb => agg_pc = "send")
  /\ [][InExecuteBatch => (batch' = batch \/ Delivers)]_vars
  /\ [][Len(request_q') < Len(request_q) => ~InExecuteBatch]_vars
  /\ [][agg_pc' = "db" /\ agg_pc # "db" =>
          /\ ~InExecuteBatch
          /\ last_db = NoDb
          /\ \A c \in Members(dispatched) : reply[c].sends = 1]_vars
  /\ [][callers' # callers =>
          UNCHANGED <<agg_pc, batch, agg_last, dispatched, last_db>>]_vars

\* a second batch is in its database call, the first one is answered and
\* more requests wait on the queue
C35_Witness ==
  /\ agg_pc = "db"
  /\ Answered # {}
  /\ Len(request_q) > 1

\* requests appear in q in the order in which execute was called
InCallOrder(q) == \A i, j \in 1..Len(q) : i < j => q[i] < q[j]

C38_Placed ==
  /\ InCallOrder(batch \o request_q)
  /\ InCallOrder(dispatched)
  /\ \A c \in Answered : \A d \in Members(batch \o request_q) : c < d
  /\ \A c \in Members(batch \o request_q) : reply[c].sends = 0
  /\ \A c \in Answered : reply[c].sends = 1
  /\ agg_pc \in {"recv", "exited"} => batch = <<>>

\* C38: every enqueued request is placed in exactly one dispatched batch and
\* the order of the queue is kept within and across batches: a request leaves
\* the queue only from its head and goes to the end of the batch being
\* collected; the batch handed to execute_batch is the collected one, made of
\* requests never dispatched before and called after all those dispatched
\* before; a request that is off the queue is in the batch or was answered.
C38_EachInOneBatchFifo ==
  /\ []C38_Placed
  /\ [][request_q' # request_q =>
          \/ \E c \in CallerIds : /\ request_q' = Append(request_q, c)
                                  /\ batch' = batch
          \/ /\ request_q # <<>>
             /\ request_q' = Tail(request_q)
             /\ batch' = Append(batch, Head(request_q))]_vars
  /\ [][dispatched' # dispatched =>
          /\ dispatched' = batch'
          /\ Len(dispatched') \in 1..MAX_BATCH_SIZE
          /\ \A c \in Members(dispatched') : reply[c].sends = 0
          /\ \A c \in Members(dispatched) : \A d \in Members(dispatched') : c < d]_vars

\* a full second batch is dispatched after the first, with a request queued
C38_Witness ==
  /\ agg_pc = "db"
  /\ Len(dispatched) = MAX_BATCH_SIZE
  /\ Answered # {}
  /\ request_q # <<>>
  /\ \E c \in Answered : callers[c].pc = "cancelled"

----------------------------------------------------------------------------
(* C39: every call of the batched executor returns (SpecBatchCallFair)      *)

\* execute is suspended: in request_tx.send or in response_rx.await
Suspended(c) == callers[c].pc \in {"blocked", "wait"}

\* execute has returned or its future was dropped
Returned(c) == callers[c].pc \in {"done", "error", "cancelled"}

\* C39: when every database call terminates, every call of
\* BatchedPostgresExecutor::execute eventually returns: with the one outcome
\* sent through its reply handle, or with an error, which happens only when
\* the aggregator has shut down; no caller stays suspended for ever: a call
\* leaves its suspension only by returning, and again and again no call is
\* suspended.
C39_EveryCallReturns ==
  /\ [](\A c \in CallerIds :
          /\ callers[c].pc = "done" => reply[c].sends = 1 /\ reply[c].sent = "taken"
          /\ callers[c].pc = "error" => agg_pc = "exited")
  /\ [][\A c \in CallerIds :
          Suspended(c) => (Suspended(c)' \/ Returned(c)')]_vars
  /\ []<>(\A c \in CallerIds : ~Suspended(c))

\* every call up to the first one beyond the queue's capacity has returned,
\* that one with its outcome
C39_Witness ==
  /\ callers[QueueCapacity + 1].pc = "done"
  /\ \A c \in 1..QueueCapacity : callers[c].pc \in {"done", "cancelled"}

====
